---- MODULE Spec2Model ----
(***************************************************************************)
(* Verification model of the predix-agent conversation core:               *)
(*   - app/agent.py            ReAct turn handler and response classifier  *)
(*   - app/services/memory_service.py   in-memory + file conversation log  *)
(*   - app/services/chat_service.py     LangGraph based entry points       *)
(*   - app/graph/chat_graph.py          the chat graph and its nodes       *)
(*   - app/db/langgraph_store.py        checkpoint access                  *)
(*   - app/models/chat.py      MessageType / ChatResponse                  *)
(* Timestamps and log output are left out: no control flow reads them.     *)
(* Three specifications share the variables:                               *)
(*   Spec          agent.process_message with the memory service           *)
(*   SpecChat      the chat_service entry points over the chat graph       *)
(*   SpecClassify  extract_tool_data applied to arbitrary result states    *)
(***************************************************************************)
EXTENDS Integers, Sequences, FiniteSets, TLC

(***************************************************************************)
(* Bounds of the model.                                                    *)
(***************************************************************************)
MaxTurns == 2
MaxTools == 2
MaxMsgs == 2

ConvIds == {"c1", "c2"}
Reqs == {"r1"}

\* the text of the n-th message received: every utterance is its own token
UserMsg(n) == IF n = 1 THEN "m1" ELSE IF n = 2 THEN "m2"
              ELSE IF n = 3 THEN "m3" ELSE "m4"

(***************************************************************************)
(* JSON-like values.  An object is a function from keys to value tokens;   *)
(* a list and a string carry an identifying token; a string also carries   *)
(* the set of keywords that occur in it as substrings (Python `in`).       *)
(***************************************************************************)
JObj(d) == [shape |-> "obj", sub |-> {}, d |-> d]
JList(id) == [shape |-> "list", sub |-> {}, d |-> [v |-> id]]
JStr(id, sub) == [shape |-> "str", sub |-> sub, d |-> [v |-> id]]
JRef(tok) == [shape |-> "ref", sub |-> {}, d |-> [v |-> tok]]
None == [shape |-> "none", sub |-> {}, d |-> [v |-> "None"]]

\* Python `key in value`
PyIn(k, v) ==
    CASE v.shape = "obj" -> k \in DOMAIN v.d
      [] v.shape = "str" -> k \in v.sub
      [] OTHER -> FALSE

\* ToolMessage.content: a str holding JSON text, a str that is not JSON,
\* or a non-str list of content blocks.
JsonText(v) == [enc |-> "json", val |-> v]
PlainText(id, sub) == [enc |-> "plain", val |-> JStr(id, sub)]
Blocks(id) == [enc |-> "blocks", val |-> JList(id)]

IsStr(c) == c.enc \in {"json", "plain"}

\* json.loads(content): ok with the decoded value, or JSONDecodeError
json_loads(c) ==
    IF c.enc = "json" THEN [ok |-> TRUE, v |-> c.val]
    ELSE [ok |-> FALSE, v |-> None]

\* json.dumps(value)
json_dumps(v) == JsonText(v)

\* str(content)
PyStr(c) == IF IsStr(c) THEN c ELSE PlainText(c.val.d.v, {})

(***************************************************************************)
(* app/models/chat.py                                                      *)
(***************************************************************************)
MessageType == {"TEXT", "SPORTS_SEARCH", "MARKET_OPTIONS", "MARKET_FINALIZED",
                "ERROR", "TOKEN_SWAP"}

\* MessageType.<NAME>: the member, or AttributeError when the enum has none
MessageTypeMember(name) ==
    IF name \in MessageType THEN [ok |-> TRUE, v |-> name]
    ELSE [ok |-> FALSE, v |-> "AttributeError"]

(***************************************************************************)
(* Tools.                                                                  *)
(***************************************************************************)
SearchTools == {"league_search", "team_search", "fixture_search"}

\* create_agent: the tools handed to create_react_agent
tools == SearchTools \cup {"dp_market_finalized", "dp_asking_options",
                           "dp_token_bridge_finalized"}

BridgeArgs ==
    { [from_network |-> "SOLANA", from_asset |-> "SOL", amount |-> "0.2",
       to_network |-> "BASE", to_asset |-> "USDC"],
      [from_network |-> "BASE", from_asset |-> "USDC", amount |-> "5",
       to_network |-> "SOLANA", to_asset |-> "SOL"] }

\* token_bridge_tools.token_bridge_finalized
token_bridge_finalized(a) ==
    JObj([from_network |-> a.from_network, from_asset |-> a.from_asset,
          amount |-> a.amount, to_network |-> a.to_network,
          to_asset |-> a.to_asset])

\* token_swap_tools.token_swap_finalized
token_swap_finalized(a) ==
    JObj([from_network |-> a.from_network, from_asset |-> a.from_asset,
          amount |-> a.amount, to_network |-> a.to_network,
          to_asset |-> a.to_asset])

\* Tools defined in the repository that create_agent does not register
SwapTool == "dp_token_swap_finalized"
AmountTool == "process_market_selection"

\* Outputs of the dp_asking_options / dp_market_finalized handlers: the
\* two-way selection payload and the finalized market data
AskingOptionsOutputs ==
    { JObj([fixture_id |-> f, win |-> "home", draw_lose |-> "draw_or_away"])
        : f \in {"12345"} }
MarketFinalizedOutputs ==
    { JObj([fixture_id |-> "12345", selected_type |-> t, amount |-> "0.5",
            currency |-> "SOL"]) : t \in {"win"} }

\* Outputs of a search tool: an object keyed by sports_data, by its list
\* name or by message only, a bare list of records, or a plain string
SearchKey(name) ==
    CASE name = "league_search" -> "leagues"
      [] name = "team_search" -> "teams"
      [] OTHER -> "fixtures"
SearchOutputs(name) ==
    { JObj([sports_data |-> "sd1"]),
      JObj([k \in {SearchKey(name)} |-> "rows1"]),
      JObj([message |-> "no match"]),
      JObj([count |-> "0"]),
      JList("rows2"),
      JStr("text1", {}) }

\* what a tool may return
ToolOutputs(name) ==
    CASE name \in SearchTools -> SearchOutputs(name)
      [] name = "dp_asking_options" -> AskingOptionsOutputs
      [] name = "dp_market_finalized" -> MarketFinalizedOutputs
      [] name = "dp_token_bridge_finalized" ->
            {token_bridge_finalized(a) : a \in BridgeArgs}
      [] name = SwapTool -> {token_swap_finalized(a) : a \in BridgeArgs}
      [] OTHER -> {JObj([messages |-> "confirm"])}

\* the tools and results the pipeline is run with: one search tool (the
\* three share the branch of line 214; SpecClassify runs them all), as an
\* object and as a bare list, and each other registered tool with one output
PipelineTools == tools \ {"league_search", "team_search"}
PipelineOutputs(name) ==
    CASE name = "fixture_search" -> {JObj([sports_data |-> "sd1"]), JList("rows2")}
      [] name = "dp_token_bridge_finalized" ->
            {token_bridge_finalized(a) : a \in {x \in BridgeArgs : x.amount = "0.2"}}
      [] OTHER -> ToolOutputs(name)

\* the tools whose failure the pipeline is run with
FailingTools == {"dp_market_finalized"}

\* The agent runtime turns a handler's output into ToolMessage.content:
\* a str output stays as it is, anything else becomes its JSON text
ToolContent(out) ==
    IF out.shape = "str" THEN [enc |-> "plain", val |-> out] ELSE JsonText(out)

\* LangChain messages of a result state
HumanMessage(c) == [cls |-> "human", content |-> c]
AIMessage(c) == [cls |-> "ai", content |-> c]
ToolMessage(name, call, c, status) ==
    [cls |-> "tool", name |-> name, tool_call_id |-> call, content |-> c,
     status |-> status]
NoName == ""

(***************************************************************************)
(* app/services/memory_service.py                                          *)
(* A store st is [mem, files]: mem is _memory_store, files the JSON files  *)
(* under data/memory; both are functions whose DOMAIN is the ids present.  *)
(***************************************************************************)
TextRecord(role, content) ==
    [type |-> "text", role |-> role, content |-> content]
ToolRecord(call, content, status, artifact) ==
    [type |-> "tool", role |-> "tool", tool_call_id |-> call,
     content |-> content, status |-> status, artifact |-> artifact]

Put(f, k, v) == [x \in DOMAIN f \cup {k} |-> IF x = k THEN v ELSE f[x]]
Lookup(f, k) == IF k \in DOMAIN f THEN f[k] ELSE <<>>

\* a store that puts the new record in front of the ones it holds
StoreAppend_Prepend(st, cid, rec, write_ok) ==
    LET mem2 == [x \in DOMAIN st.mem \cup {cid} |->
                    IF x = cid THEN << rec >> \o (IF cid \in DOMAIN st.mem
                                                  THEN st.mem[cid] ELSE <<>>)
                    ELSE st.mem[x]]
    IN [mem |-> mem2,
        files |-> IF write_ok
                  THEN [x \in DOMAIN st.files \cup {cid} |->
                           IF x = cid THEN mem2[cid] ELSE st.files[x]]
                  ELSE st.files]

\* the shared body of save_message / save_tool_message: append in memory,
\* then rewrite the file with the whole list; a failed write is only logged
StoreAppend(st, cid, rec, write_ok) ==
    LET mem2 == Put(st.mem, cid, Append(Lookup(st.mem, cid), rec))
    IN [mem |-> mem2,
        files |-> IF write_ok THEN Put(st.files, cid, mem2[cid]) ELSE st.files]

save_message(st, cid, role, content, write_ok) ==
    StoreAppend(st, cid, TextRecord(role, content), write_ok)

save_tool_message(st, cid, call, content, status, artifact, write_ok) ==
    StoreAppend(st, cid, ToolRecord(call, content, status, artifact), write_ok)

\* the role/content view without the tool records
TextOnly(msgs) ==
    LET f == SelectSeq(msgs, LAMBDA m : m.type # "tool")
    IN [i \in 1..Len(f) |-> [role |-> f[i].role, content |-> f[i].content]]

\* a load that answers an unknown id with a not-found marker instead of an
\* empty conversation
get_memory_messages_NotFound(st, cid, load_ok) ==
    IF cid \in DOMAIN st.mem
    THEN [st |-> st, msgs |-> TextOnly(st.mem[cid])]
    ELSE IF cid \in DOMAIN st.files /\ load_ok
    THEN [st |-> [st EXCEPT !.mem = Put(st.mem, cid, st.files[cid])],
          msgs |-> TextOnly(st.files[cid])]
    ELSE [st |-> st, msgs |-> << [role |-> "system", content |-> "not_found"] >>]

\* get_memory_messages: [st, msgs]
get_memory_messages(st, cid, load_ok) ==
    IF cid \in DOMAIN st.mem
    THEN [st |-> st, msgs |-> TextOnly(st.mem[cid])]
    ELSE IF cid \in DOMAIN st.files /\ load_ok
    THEN [st |-> [st EXCEPT !.mem = Put(st.mem, cid, st.files[cid])],
          msgs |-> TextOnly(st.files[cid])]
    ELSE [st |-> [st EXCEPT !.mem = Put(st.mem, cid, <<>>)], msgs |-> <<>>]

\* get_raw_messages: [st, msgs]
get_raw_messages(st, cid, load_ok) ==
    IF cid \in DOMAIN st.mem
    THEN [st |-> st, msgs |-> st.mem[cid]]
    ELSE IF cid \in DOMAIN st.files /\ load_ok
    THEN [st |-> [st EXCEPT !.mem = Put(st.mem, cid, st.files[cid])],
          msgs |-> st.files[cid]]
    ELSE [st |-> [st EXCEPT !.mem = Put(st.mem, cid, <<>>)], msgs |-> <<>>]

\* a sequence of saves made while the disk is in one condition
RECURSIVE ApplySaves(_, _, _)
ApplySaves(st, ops, write_ok) ==
    IF ops = <<>> THEN st
    ELSE ApplySaves(StoreAppend(st, Head(ops).cid, Head(ops).rec, write_ok),
                    Tail(ops), write_ok)

(***************************************************************************)
(* app/agent.py: extract_tool_data                                         *)
(***************************************************************************)
InitialMessageType == "TEXT"

\* result_state.get("configurable", {}).get("thread_id", "unknown")
ThreadIdOf(result) ==
    IF "configurable" \in DOMAIN result THEN result.configurable.thread_id
    ELSE "unknown"

\* for msg in reversed(messages): the first ToolMessage that has a name
\* a scan that walks the messages front to back and stops at the first
\* named ToolMessage
LastToolIndex_FirstWins(msgs, i) ==
    IF \A j \in 1..i : ~(msgs[j].cls = "tool" /\ msgs[j].name # NoName)
    THEN 0
    ELSE CHOOSE j \in 1..i :
            /\ msgs[j].cls = "tool" /\ msgs[j].name # NoName
            /\ \A k \in 1..(j - 1) : ~(msgs[k].cls = "tool" /\ msgs[k].name # NoName)

RECURSIVE LastToolIndex(_, _)
LastToolIndex(msgs, i) ==
    IF i = 0 THEN 0
    ELSE IF msgs[i].cls = "tool" /\ msgs[i].name # NoName THEN i
    ELSE LastToolIndex(msgs, i - 1)

\* content_data: the decoded JSON of a str content, the str itself when it
\* is not JSON, the content as it is when it is not a str
ContentData(c) ==
    IF IsStr(c)
    THEN IF json_loads(c).ok THEN json_loads(c).v ELSE PyStr(c).val
    ELSE c.val

\* the search branch: [ok, data]; ok = FALSE is the TypeError of indexing a
\* str with a key or the AttributeError of .get on a list or a str
SearchData(cd) ==
    IF PyIn("sports_data", cd)
    THEN IF cd.shape = "obj"
         THEN [ok |-> TRUE, data |-> JRef(cd.d["sports_data"])]
         ELSE [ok |-> FALSE, data |-> None]
    ELSE IF PyIn("fixtures", cd) \/ PyIn("teams", cd) \/ PyIn("leagues", cd)
    THEN [ok |-> TRUE, data |-> cd]
    ELSE IF cd.shape = "obj"
    THEN [ok |-> TRUE,
          data |-> JObj([message |-> IF "message" \in DOMAIN cd.d
                                     THEN cd.d["message"]
                                     ELSE "Sports data retrieved"])]
    ELSE [ok |-> FALSE, data |-> None]

\* an if/elif chain whose two market branches are exchanged
Classify_MarketBranchesSwapped(tool_name, cd) ==
    CASE tool_name = "dp_asking_options" ->
            [ok |-> TRUE, message_type |-> "MARKET_FINALIZED", data |-> cd]
      [] tool_name = "dp_market_finalized" ->
            [ok |-> TRUE, message_type |-> "MARKET_OPTIONS", data |-> cd]
      [] OTHER ->
            [ok |-> TRUE, message_type |-> InitialMessageType, data |-> None]

\* the if/elif chain on tool_name: [ok, message_type, data]
Classify(tool_name, cd) ==
    CASE tool_name = "dp_asking_options" ->
            LET m == MessageTypeMember("MARKET_OPTIONS")
            IN [ok |-> m.ok, message_type |-> m.v, data |-> cd]
      [] tool_name = "dp_market_finalized" ->
            LET m == MessageTypeMember("MARKET_FINALIZED")
            IN [ok |-> m.ok, message_type |-> m.v, data |-> cd]
      [] tool_name = "dp_token_bridge_finalized" ->
            LET m == MessageTypeMember("TOKEN_BRIDGE")
            IN [ok |-> m.ok, message_type |-> m.v, data |-> cd]
      [] tool_name \in {"league_search", "team_search", "fixture_search"} ->
            LET m == MessageTypeMember("SPORTS_SEARCH")
                sd == SearchData(cd)
            IN [ok |-> m.ok /\ sd.ok, message_type |-> m.v, data |-> sd.data]
      [] OTHER ->
            [ok |-> TRUE, message_type |-> InitialMessageType, data |-> None]

\* extract_tool_data: [raised, message_type, data, saves]; saves are the
\* save_tool_message calls it makes, each [cid, rec]
extract_tool_data(result) ==
    LET msgs == result.messages
        i == LastToolIndex(msgs, Len(msgs))
    IN IF i = 0
       THEN [raised |-> FALSE, message_type |-> InitialMessageType,
             data |-> None, saves |-> <<>>]
       ELSE LET cd == ContentData(msgs[i].content)
                c == Classify(msgs[i].name, cd)
            IN [raised |-> ~c.ok,
                message_type |-> c.message_type,
                data |-> c.data,
                saves |-> << [cid |-> ThreadIdOf(result),
                              rec |-> ToolRecord(msgs[i].tool_call_id,
                                                 json_dumps(cd), "success", cd)] >>]

(***************************************************************************)
(* app/agent.py: process_message                                           *)
(***************************************************************************)
error_message ==
    "Sorry, I encountered an error processing your request. Please try again."
NoReply == "I couldn't process your request."
AIReplies == {"a1"}

Envelope(cid, message, message_type, data) ==
    [conversation_id |-> cid, message |-> message,
     message_type |-> message_type, data |-> data]
NoEnvelope == Envelope("", "", "", None)

\* role/content dicts handed to the agent become LangChain messages
ToLangChain(m) ==
    IF m.role = "assistant" THEN AIMessage(m.content)
    ELSE IF m.role = "tool" THEN ToolMessage(NoName, 0, m.content, "success")
    ELSE HumanMessage(m.content)

\* messages_list: the stored text turns, then the new user message
MessagesList(history, message) ==
    Append(history, [role |-> "user", content |-> message])

\* the result state of agent.ainvoke: the input messages, the messages of
\* the tools that ran, the final AI message
ResultState(messages_list, new_messages) ==
    [messages |-> [i \in 1..Len(messages_list) |-> ToLangChain(messages_list[i])]
                  \o new_messages]

FinalContent(result) ==
    IF Len(result.messages) > 0
    THEN result.messages[Len(result.messages)].content
    ELSE NoReply

\* the artifact of a tool message (lines 293-300)
Artifact(c) ==
    IF IsStr(c)
    THEN IF json_loads(c).ok THEN json_loads(c).v ELSE c.val
    ELSE c.val

\* the saves of lines 279-309: the assistant reply, then every ToolMessage
ResultSaves(cid, result) ==
    LET tm == SelectSeq(result.messages, LAMBDA m : m.cls = "tool")
    IN << [cid |-> cid, rec |-> TextRecord("assistant", FinalContent(result))] >>
       \o [i \in 1..Len(tm) |->
             [cid |-> cid,
              rec |-> ToolRecord(tm[i].tool_call_id, PyStr(tm[i].content),
                                 tm[i].status, Artifact(tm[i].content))]]

\* a process_message that keeps the user message only on the success path
UserSave_OnSuccessOnly(st, cid, message, write_ok) == st

\* line 255: the user message is saved before the try block
UserSave(st, cid, message, write_ok) ==
    save_message(st, cid, "user", message, write_ok)

\* an except block that stores no fallback turn
FallbackSaves_Nothing(cid) == <<>>

\* the except block (lines 323-335): the fallback turn, then the ERROR
\* envelope; escaped = building the envelope raises in its turn
FallbackSaves(cid) ==
    << [cid |-> cid, rec |-> TextRecord("assistant", error_message)] >>
ErrorEnvelope(cid) ==
    Envelope(cid, error_message, MessageTypeMember("ERROR").v, None)
ExceptBlock(cid) ==
    [saves |-> FallbackSaves(cid),
     ret |-> ErrorEnvelope(cid),
     escaped |-> ~MessageTypeMember("ERROR").ok]

\* everything process_message does once agent.ainvoke has returned:
\* [saves, ret, raised, escaped]
AfterInvoke(cid, result) ==
    LET e == extract_tool_data(result)
        x == ExceptBlock(cid)
    IN IF e.raised
       THEN [saves |-> ResultSaves(cid, result) \o e.saves \o x.saves,
             ret |-> x.ret, raised |-> TRUE, escaped |-> x.escaped]
       ELSE [saves |-> ResultSaves(cid, result) \o e.saves,
             ret |-> Envelope(cid, FinalContent(result), e.message_type, e.data),
             raised |-> FALSE, escaped |-> FALSE]

(***************************************************************************)
(* State of the agent pipeline.                                            *)
(*   memory_store  _memory_store of memory_service                         *)
(*   files         the conversation files under data/memory                *)
(*   disk_ok       whether file reads and writes currently succeed         *)
(*   req           the process_message calls: where each one is (idle,    *)
(*                 awaiting agent.ainvoke, done = returned, raised = an    *)
(*                 exception left it), its arguments and locals, the       *)
(*                 exception it met (fault), whether its last file write   *)
(*                 succeeded (flushed) and the envelope it returned        *)
(*   turns         number of calls received so far                         *)
(*   client        the memory service as its caller sees it: what this     *)
(*                 process appended, what the files held when it started, *)
(*                 and what the last call returned                        *)
(***************************************************************************)
VARIABLES memory_store, files, disk_ok, req, turns, checkpointer, chat, client

vars == <<memory_store, files, disk_ok, req, turns, checkpointer, chat, client>>

agentVars == <<memory_store, files, disk_ok, req, client>>
chatVars == <<checkpointer, chat, client>>

Store == [mem |-> memory_store, files |-> files]

EmptyMap == [x \in {} |-> <<>>]

\* no chat_service call has been made
NoCall == [pc |-> "idle"]

\* the memory service has no caller of its own
NoClient == [op |-> "none"]

Idle ==
    [pc |-> "idle", conversation_id |-> "", message |-> "",
     messages_list |-> <<>>, new_messages |-> <<>>, fault |-> "",
     flushed |-> FALSE, ret |-> NoEnvelope]

\* conversation files left by an earlier process: c1 has one, c2 has none
InitFiles ==
    { Put(EmptyMap, "c1",
          << TextRecord("user", "m0"),
             TextRecord("assistant", "a0"),
             ToolRecord(1, json_dumps(JObj([sports_data |-> "sd0"])), "success",
                        JObj([sports_data |-> "sd0"])) >>) }

Init ==
    /\ memory_store = EmptyMap
    /\ files \in InitFiles
    /\ disk_ok = TRUE
    /\ req = [r \in Reqs |-> Idle]
    /\ turns = 0
    /\ checkpointer = EmptyMap
    /\ chat = NoCall
    /\ client = NoClient

\* the file system starts or stops failing
DiskChanges ==
    /\ disk_ok' = ~disk_ok
    /\ UNCHANGED <<memory_store, files, req, turns>>
    /\ UNCHANGED chatVars

\* process_message up to the await of agent.ainvoke (lines 245-270)
Receive(r, cid, message) ==
    /\ req[r].pc \in {"idle", "done", "raised"}
    /\ turns < MaxTurns
    /\ LET g == get_memory_messages(Store, cid, disk_ok)
           st == UserSave(g.st, cid, message, disk_ok)
       IN /\ memory_store' = st.mem
          /\ files' = st.files
          /\ req' = [req EXCEPT ![r] =
                       [Idle EXCEPT !.pc = "awaiting",
                                    !.conversation_id = cid,
                                    !.message = message,
                                    !.flushed = disk_ok,
                                    !.messages_list = MessagesList(g.msgs, message)]]
    /\ turns' = turns + 1
    /\ UNCHANGED disk_ok
    /\ UNCHANGED chatVars

CallId(r) == 10 * turns + Len(req[r].new_messages) + 1

\* inside agent.ainvoke: a registered tool runs and its ToolMessage is added
ToolReturns(r, name, out) ==
    /\ req[r].pc = "awaiting"
    /\ Len(req[r].new_messages) < MaxTools
    /\ req' = [req EXCEPT ![r].new_messages =
                 Append(@, ToolMessage(name, CallId(r), ToolContent(out), "success"))]
    /\ UNCHANGED <<memory_store, files, disk_ok, turns>>
    /\ UNCHANGED chatVars

\* inside agent.ainvoke: a tool result arrives whose status is "error" and
\* whose content is the error text (line 290 reads the status)
ToolReportsError(r, name) ==
    /\ req[r].pc = "awaiting"
    /\ Len(req[r].new_messages) < MaxTools
    /\ req' = [req EXCEPT ![r].new_messages =
                 Append(@, ToolMessage(name, CallId(r),
                                       PlainText("tool_error", {}), "error"))]
    /\ UNCHANGED <<memory_store, files, disk_ok, turns>>
    /\ UNCHANGED chatVars

\* agent.ainvoke raises, because the reasoning step raised or because a
\* tool handler's exception left the agent (process_message cannot tell
\* the two apart): the except block of lines 323-335
InvokeRaises(r) ==
    /\ req[r].pc = "awaiting"
    /\ LET cid == req[r].conversation_id
           x == ExceptBlock(cid)
           st == ApplySaves(Store, x.saves, disk_ok)
       IN /\ memory_store' = st.mem
          /\ files' = st.files
          /\ req' = [req EXCEPT ![r].pc = IF x.escaped THEN "raised" ELSE "done",
                                ![r].fault = "ainvoke",
                                ![r].flushed = disk_ok,
                                ![r].ret = IF x.escaped THEN NoEnvelope ELSE x.ret]
    /\ UNCHANGED <<disk_ok, turns>>
    /\ UNCHANGED chatVars

\* agent.ainvoke returns: lines 272-321, and the except block when the
\* classification raises
InvokeReturns(r, final) ==
    /\ req[r].pc = "awaiting"
    /\ LET cid == req[r].conversation_id
           result == ResultState(req[r].messages_list,
                                 Append(req[r].new_messages, AIMessage(final)))
           a == AfterInvoke(cid, result)
           st == ApplySaves(Store, a.saves, disk_ok)
       IN /\ memory_store' = st.mem
          /\ files' = st.files
          /\ req' = [req EXCEPT ![r].pc = IF a.escaped THEN "raised" ELSE "done",
                                ![r].new_messages = Append(@, AIMessage(final)),
                                ![r].fault =
                                    IF a.raised THEN "classification" ELSE "",
                                ![r].flushed = disk_ok,
                                ![r].ret = IF a.escaped THEN NoEnvelope ELSE a.ret]
    /\ UNCHANGED <<disk_ok, turns>>
    /\ UNCHANGED chatVars

Next ==
    \/ DiskChanges
    \/ \E r \in Reqs, cid \in ConvIds : Receive(r, cid, UserMsg(turns + 1))
    \/ \E r \in Reqs, name \in PipelineTools :
         \E out \in PipelineOutputs(name) : ToolReturns(r, name, out)
    \/ \E r \in Reqs, name \in FailingTools : ToolReportsError(r, name)
    \/ \E r \in Reqs : InvokeRaises(r)
    \/ \E r \in Reqs, final \in AIReplies : InvokeReturns(r, final)

Spec == Init /\ [][Next]_vars

(***************************************************************************)
(* app/graph/chat_graph.py: the chat graph.  A ChatState is a record of    *)
(* channel values; an absent value (Python None) is the string "None".     *)
(* The context channel is kept as its "confirmed" entry.  What the LLM and *)
(* the sports service answer is an input (env) of each run.                *)
(***************************************************************************)
RecursionLimit == 4

Msg(role, content) == [role |-> role, content |-> content]

MarketId(n) == IF n = 1 THEN "mk1" ELSE IF n = 2 THEN "mk2" ELSE IF n = 3 THEN "mk3" ELSE "mk4"
WinId(n) == IF n = 1 THEN "w1" ELSE IF n = 2 THEN "w2" ELSE IF n = 3 THEN "w3" ELSE "w4"
DrawLoseId(n) == IF n = 1 THEN "d1" ELSE IF n = 2 THEN "d2" ELSE IF n = 3 THEN "d3" ELSE "d4"

\* chat_service.py lines 45-59: the state of a conversation without checkpoint
InitialState ==
    [messages |-> <<>>, market_id |-> "None", title |-> "None",
     status |-> "None", selections |-> <<>>, selected_option |-> "None",
     selected_id |-> "None", bet_amount |-> "None", sports_data |-> "None",
     current_node |-> "None", confirmed |-> "None"]

\* a node's update merged into the channels: messages through the add
\* reducer (line 35), every other key overwritten
ApplyUpdate(values, upd) ==
    [k \in DOMAIN values |->
        IF k \in DOMAIN upd
        THEN IF k = "messages" THEN values.messages \o upd.messages ELSE upd[k]
        ELSE values[k]]

\* node "process_message" (lines 93-166)
node_process_message(state, env) ==
    IF state.messages = <<>>
    THEN [current_node |-> "end"]
    ELSE IF state.messages[Len(state.messages)].role # "user"
    THEN [current_node |-> "end"]
    ELSE IF env.intent = "MARKET_CREATION"
    THEN [current_node |-> "create_market"]
    ELSE IF env.intent = "SPORTS_INFO"
    THEN [current_node |-> "sports_info"]
    ELSE [messages |-> << Msg("assistant", "chat_reply") >>,
          current_node |-> "end"]

\* node "sports_info" (lines 169-267)
get_sports_info(state, env) ==
    [messages |-> << Msg("assistant", "sports_reply") >>,
     sports_data |-> "sports_data",
     current_node |-> "end"]

\* node "create_market" (lines 270-453); env.n numbers the uuid4 draws
create_market(state, env) ==
    [messages |-> << Msg("assistant", "created_market") >>,
     market_id |-> MarketId(env.n),
     title |-> "title",
     status |-> "draft",
     selections |-> << [id |-> WinId(env.n), name |-> "Home Win"],
                       [id |-> DrawLoseId(env.n), name |-> "Home Draw/Lose"] >>,
     bet_amount |-> "1.0",
     current_node |-> "wait_for_selection",
     confirmed |-> "None"]

\* a selection step that takes the first option for an id it does not know
node_process_selection_AcceptsAny(state, env) ==
    IF state.selected_id \in {"None", ""}
    THEN [messages |-> << Msg("assistant", "selection_not_understood") >>,
          current_node |-> "wait_for_selection"]
    ELSE IF state.selections = <<>>
    THEN [messages |-> << Msg("assistant", "invalid_selection") >>,
          current_node |-> "wait_for_selection"]
    ELSE [messages |-> << Msg("assistant", "proceed?") >>,
          selected_option |-> state.selections[1].name,
          current_node |-> "wait_for_confirmation"]

\* node "wait_for_selection" (lines 456-496)
node_process_selection(state, env) ==
    IF state.selected_id \in {"None", ""}
    THEN [messages |-> << Msg("assistant", "selection_not_understood") >>,
          current_node |-> "wait_for_selection"]
    ELSE IF \A i \in 1..Len(state.selections) :
                state.selections[i].id # state.selected_id
    THEN [messages |-> << Msg("assistant", "invalid_selection") >>,
          current_node |-> "wait_for_selection"]
    ELSE LET i == CHOOSE j \in 1..Len(state.selections) :
                     /\ state.selections[j].id = state.selected_id
                     /\ \A k \in 1..(j - 1) :
                            state.selections[k].id # state.selected_id
         IN [messages |-> << Msg("assistant", "proceed?") >>,
             selected_option |-> state.selections[i].name,
             current_node |-> "wait_for_confirmation"]

\* a confirmation step that opens the market whatever the flag says
node_process_confirmation_OpensAlways(state, env) ==
    [messages |-> << Msg("assistant", "market_open") >>,
     status |-> "open",
     current_node |-> "end"]

\* node "wait_for_confirmation" (lines 499-552)
node_process_confirmation(state, env) ==
    IF state.confirmed # "True"
    THEN [messages |-> << Msg("assistant", "cancelled") >>,
          status |-> "cancelled",
          current_node |-> "end"]
    ELSE [messages |-> << Msg("assistant", "market_open") >>,
          status |-> "open",
          current_node |-> "end"]

\* router (lines 555-568)
router(state) ==
    IF state.current_node \in {"create_market", "sports_info",
                               "wait_for_selection", "wait_for_confirmation"}
    THEN state.current_node
    ELSE "end"

\* create_chat_graph (lines 571-627): the targets each node's conditional
\* edges know
PathMap(node) ==
    CASE node = "process_message" ->
            {"create_market", "sports_info", "wait_for_selection",
             "wait_for_confirmation", "end"}
      [] node = "create_market" -> {"wait_for_selection", "end"}
      [] node = "sports_info" -> {"end"}
      [] node = "wait_for_selection" ->
            {"wait_for_selection", "wait_for_confirmation", "end"}
      [] OTHER -> {"wait_for_confirmation", "end"}

RunNode(node, state, env) ==
    CASE node = "process_message" -> node_process_message(state, env)
      [] node = "create_market" -> create_market(state, env)
      [] node = "sports_info" -> get_sports_info(state, env)
      [] node = "wait_for_selection" -> node_process_selection(state, env)
      [] OTHER -> node_process_confirmation(state, env)

\* the run of the compiled graph from a node on: [raised, values], values
\* being the last checkpoint written.  The run raises when a node raises
\* (env.fail_step is the step at which one does), when the router names a
\* target the node's edges lack, and when RecursionLimit steps did not
\* reach END.
RECURSIVE RunFrom(_, _, _, _)
RunFrom(values, node, step, env) ==
    IF node = "end"
    THEN [raised |-> FALSE, values |-> values]
    ELSE IF step > RecursionLimit \/ env.fail_step = step
    THEN [raised |-> TRUE, values |-> values]
    ELSE LET v2 == ApplyUpdate(values, RunNode(node, values, env))
         IN IF router(v2) \notin PathMap(node)
            THEN [raised |-> TRUE, values |-> v2]
            ELSE RunFrom(v2, router(v2), step + 1, env)

\* graph.invoke(input, config) on a thread whose checkpoint holds base: the
\* input is written through the channels' reducers, then the run starts at
\* START -> process_message.  env.fail_step = -1: invoke raises before
\* anything is written.
GraphInvoke(base, input, env) ==
    IF env.fail_step = -1
    THEN [raised |-> TRUE, values |-> base, wrote |-> FALSE]
    ELSE LET run == RunFrom(ApplyUpdate(base, input), "process_message", 1, env)
         IN [raised |-> run.raised, values |-> run.values, wrote |-> TRUE]

(***************************************************************************)
(* app/services/chat_service.py and app/db/langgraph_store.py              *)
(* (specification SpecChat).  The three entry points hold no await, so     *)
(* each call is one step.  checkpointer maps a thread id to the channel    *)
(* values of its last checkpoint; chat records the last call: its entry    *)
(* point and arguments, how the graph run ended (run_raised, values) and   *)
(* whether the call returned an envelope (ret) or let an exception out.    *)
(***************************************************************************)
Intents == {"MARKET_CREATION", "SPORTS_INFO", "GENERAL_CHAT"}
FailSteps == {-1, 0, 1, 2}

\* models/chat.py lines 26-30: ChatResponse validates message_type against
\* the values of MessageType; [ok, v]
ChatResponse(cid, message, message_type, data) ==
    [ok |-> message_type \in MessageType,
     v |-> Envelope(cid, message, message_type, data)]

\* langgraph_store.get_conversation_state (lines 15-39): [found, values];
\* {} (found = FALSE) for a thread without checkpoint and when get_state
\* raised (read_ok = FALSE, lines 37-39)
get_conversation_state(thread_id, read_ok) ==
    IF thread_id \in DOMAIN checkpointer /\ read_ok
    THEN [found |-> TRUE, values |-> checkpointer[thread_id]]
    ELSE [found |-> FALSE, values |-> InitialState]

\* chat_service.py lines 98-104
LatestMessage(result) ==
    LET a == SelectSeq(result.messages, LAMBDA m : m.role = "assistant")
    IN IF a # <<>> THEN a[Len(a)].content ELSE "no_response"

SportsData(tok) == JObj([fixtures |-> tok, teams |-> tok])

\* chat_service.py lines 106-148: [message_type, data]
ChatMessageType(result) ==
    IF result.current_node = "wait_for_selection" /\ result.market_id # "None"
    THEN [message_type |-> "market_options",
          data |-> JObj([market_id |-> result.market_id,
                         title |-> result.title,
                         options |-> result.selections,
                         bet_amount |-> result.bet_amount])]
    ELSE IF result.current_node = "wait_for_confirmation"
    THEN [message_type |-> "confirmation_options",
          data |-> JObj([market_id |-> result.market_id,
                         selection |-> result.selected_option,
                         amount |-> result.bet_amount])]
    ELSE IF result.status = "open"
    THEN [message_type |-> "market_finalized",
          data |-> JObj([market_id |-> result.market_id,
                         title |-> result.title,
                         status |-> "open"])]
    ELSE IF result.sports_data # "None"
    THEN [message_type |-> "sports_search", data |-> SportsData(result.sports_data)]
    ELSE [message_type |-> "text", data |-> None]

\* the try/except every entry point wraps its graph run in: the response
\* built from the run's result, or the "error" response when the run or the
\* construction of the response raised; [raised, ret]
TryRespond(cid, g, resp, error_text) ==
    LET fallback == ChatResponse(cid, error_text, "error", None)
    IN IF ~g.raised /\ resp.ok
       THEN [raised |-> FALSE, ret |-> resp.v]
       ELSE IF fallback.ok
       THEN [raised |-> FALSE, ret |-> fallback.v]
       ELSE [raised |-> TRUE, ret |-> NoEnvelope]

CallRecord(entry, cid, intent, g, out) ==
    [pc |-> IF out.raised THEN "raised" ELSE "returned",
     entry |-> entry, conversation_id |-> cid, intent |-> intent,
     ran |-> g.wrote, run_raised |-> g.raised, values |-> g.values,
     ret |-> out.ret]

NotFound == [raised |-> TRUE, values |-> InitialState, wrote |-> FALSE]

\* chat_service.process_chat_message (lines 9-163)
process_chat_message(cid, message, env) ==
    /\ turns < MaxTurns
    /\ LET current_state == get_conversation_state(cid, env.read_ok).values
           input_state == [current_state EXCEPT
                             !.messages = @ \o << Msg("user", message) >>]
           base == IF cid \in DOMAIN checkpointer THEN checkpointer[cid]
                                                  ELSE InitialState
           g == GraphInvoke(base, input_state, env)
           c == ChatMessageType(g.values)
           resp == ChatResponse(cid, LatestMessage(g.values), c.message_type, c.data)
           out == TryRespond(cid, g, resp, "error_processing_request")
       IN /\ checkpointer' = IF g.wrote THEN Put(checkpointer, cid, g.values)
                                        ELSE checkpointer
          /\ chat' = CallRecord("process_chat_message", cid, env.intent, g, out)
    /\ turns' = turns + 1
    /\ UNCHANGED agentVars

\* what graph.update_state hands back (line 90) is the library's choice: an
\* object whose .values is the merged state ("state"), or the thread's
\* RunnableConfig, a dict, whose .values is the bound method dict.values
\* ("config"); or it raises ("raised")
UpdateOutcomes == {"state", "config", "raised"}

\* langgraph_store.update_conversation_state (lines 66-94): what it returned
\* (ret: the merged "state", a "method", or the "empty" dict of line 94;
\* found: ret is a state) and values, the thread's checkpoint after the call
update_conversation_state(thread_id, values, outcome) ==
    IF outcome = "raised"
    THEN [found |-> FALSE, ret |-> "empty", values |-> checkpointer[thread_id]]
    ELSE [found |-> outcome = "state",
          ret |-> IF outcome = "state" THEN "state" ELSE "method",
          values |-> ApplyUpdate(checkpointer[thread_id], values)]

\* lines 202-214 and 286-298: the state is updated and the graph is run on
\* what the update returned; graph.invoke raises on an input that is not a
\* state
UpdateAndInvoke(cid, updates, env) ==
    LET u == update_conversation_state(cid, updates, env.update)
    IN IF u.found
       THEN GraphInvoke(u.values, u.values, env)
       ELSE [raised |-> TRUE, values |-> u.values, wrote |-> FALSE]

\* the call record of an entry point that patched the state: patch holds the
\* checkpoint before the patch, the patch, and what the update returned
Patched(rec, cid, updates, env) ==
    LET u == update_conversation_state(cid, updates, env.update)
        p == [before |-> checkpointer[cid], updates |-> updates,
              outcome |-> env.update, ret |-> u.ret, after |-> u.values]
    IN [k \in DOMAIN rec \cup {"patch"} |-> IF k = "patch" THEN p ELSE rec[k]]

\* chat_service.process_selection (lines 165-247)
process_selection(cid, market_id, selection_id, amount, env) ==
    /\ turns < MaxTurns
    /\ IF ~get_conversation_state(cid, env.read_ok).found
       THEN LET resp == ChatResponse(cid, "conversation_not_found", "error", None)
            IN /\ chat' = CallRecord("process_selection", cid, "", NotFound,
                                     [raised |-> ~resp.ok,
                                      ret |-> IF resp.ok THEN resp.v ELSE NoEnvelope])
               /\ UNCHANGED checkpointer
       ELSE LET g == UpdateAndInvoke(cid, [selected_id |-> selection_id,
                                           bet_amount |-> amount], env)
                resp == ChatResponse(cid, LatestMessage(g.values),
                                     "confirmation_options",
                                     JObj([market_id |-> market_id,
                                           selection |-> g.values.selected_option,
                                           amount |-> amount]))
                out == TryRespond(cid, g, resp, "error_processing_selection")
            IN /\ checkpointer' = Put(checkpointer, cid, g.values)
               /\ chat' = Patched(CallRecord("process_selection", cid, "", g, out),
                                   cid, [selected_id |-> selection_id,
                                         bet_amount |-> amount], env)
    /\ turns' = turns + 1
    /\ UNCHANGED agentVars

\* chat_service.process_confirmation (lines 249-336)
process_confirmation(cid, market_id, confirmed, env) ==
    /\ turns < MaxTurns
    /\ IF ~get_conversation_state(cid, env.read_ok).found
       THEN LET resp == ChatResponse(cid, "conversation_not_found", "error", None)
            IN /\ chat' = CallRecord("process_confirmation", cid, "", NotFound,
                                     [raised |-> ~resp.ok,
                                      ret |-> IF resp.ok THEN resp.v ELSE NoEnvelope])
               /\ UNCHANGED checkpointer
       ELSE LET g == UpdateAndInvoke(cid, [confirmed |-> confirmed], env)
                resp == IF confirmed = "True" /\ g.values.status = "open"
                        THEN ChatResponse(cid, LatestMessage(g.values),
                                          "market_finalized",
                                          JObj([market_id |-> market_id,
                                                title |-> g.values.title,
                                                status |-> "open"]))
                        ELSE ChatResponse(cid, LatestMessage(g.values), "text", None)
                out == TryRespond(cid, g, resp, "error_processing_confirmation")
            IN /\ checkpointer' = Put(checkpointer, cid, g.values)
               /\ chat' = Patched(CallRecord("process_confirmation", cid, "", g, out),
                                   cid, [confirmed |-> confirmed], env)
    /\ turns' = turns + 1
    /\ UNCHANGED agentVars

ChatEnvs ==
    [intent : Intents, fail_step : FailSteps, n : {turns + 1},
     update : UpdateOutcomes, read_ok : BOOLEAN]

SelectionIds == {WinId(1), DrawLoseId(2), "", "bogus"}

NextChat ==
    \/ \E cid \in ConvIds, env \in ChatEnvs :
         process_chat_message(cid, UserMsg(turns + 1), env)
    \/ \E cid \in ConvIds, sel \in SelectionIds, env \in ChatEnvs :
         process_selection(cid, MarketId(1), sel, "2.5", env)
    \/ \E cid \in ConvIds, confirmed \in {"True", "False"}, env \in ChatEnvs :
         process_confirmation(cid, MarketId(1), confirmed, env)

InitChat ==
    /\ memory_store = EmptyMap
    /\ files = EmptyMap
    /\ disk_ok = TRUE
    /\ req = [r \in Reqs |-> Idle]
    /\ turns = 0
    /\ checkpointer = EmptyMap
    /\ chat = NoCall
    /\ client = NoClient

SpecChat == InitChat /\ [][NextChat]_vars

(***************************************************************************)
(* extract_tool_data on its own (specification SpecClassify): the function *)
(* is applied to result states holding any messages, also results of tools *)
(* create_agent does not register.  req[r] holds the argument (result) and *)
(* what the call returned (message_type, data) or that it raised.          *)
(***************************************************************************)
ResultAlphabet ==
    UNION { { ToolMessage(name, 1, ToolContent(out), "success") :
                out \in ToolOutputs(name) } :
            name \in tools \cup {SwapTool, AmountTool} }
    \cup { ToolMessage(NoName, 1, Blocks("b1"), "success") }
    \cup { AIMessage(PlainText(a, {})) : a \in AIReplies }

ResultMessages == UNION { [1..n -> ResultAlphabet] : n \in 0..MaxMsgs }

ClassifyInput(m) ==
    [pc |-> "input", result |-> [messages |-> m], message_type |-> "", data |-> None]

InitClassify ==
    /\ memory_store = EmptyMap
    /\ files = EmptyMap
    /\ disk_ok \in BOOLEAN
    /\ req \in [Reqs -> {ClassifyInput(m) : m \in ResultMessages}]
    /\ turns = 0
    /\ checkpointer = EmptyMap
    /\ chat = NoCall
    /\ client = NoClient

ExtractToolData(r) ==
    /\ req[r].pc = "input"
    /\ LET e == extract_tool_data(req[r].result)
           st == ApplySaves(Store, e.saves, disk_ok)
       IN /\ memory_store' = st.mem
          /\ files' = st.files
          /\ req' = [req EXCEPT
                       ![r].pc = IF e.raised THEN "raised" ELSE "returned",
                       ![r].message_type = IF e.raised THEN "" ELSE e.message_type,
                       ![r].data = IF e.raised THEN None ELSE e.data]
    /\ UNCHANGED <<disk_ok, turns>>
    /\ UNCHANGED chatVars

NextClassify == \E r \in Reqs : ExtractToolData(r)

SpecClassify == InitClassify /\ [][NextClassify]_vars

\* the ToolMessage extract_tool_data stops at
ClassifiedIndex(r) ==
    LastToolIndex(req[r].result.messages, Len(req[r].result.messages))
Classified(r) == req[r].result.messages[ClassifiedIndex(r)]
ClassifiedTool(r, names) ==
    /\ req[r].pc # "input"
    /\ ClassifiedIndex(r) > 0
    /\ Classified(r).name \in names

\* C9 as stated: dp_token_swap_finalized is among the tools create_agent
\* hands to the reasoning step, and a result whose fired tool is
\* dp_token_swap_finalized is classified TOKEN_SWAP with the swap payload.
C9_TokenSwap ==
    \A r \in Reqs :
        ClassifiedTool(r, {SwapTool}) =>
            /\ SwapTool \in tools
            /\ req[r].pc = "returned"
            /\ req[r].message_type = "TOKEN_SWAP"
            /\ req[r].data = Classified(r).content.val

\* C10 as stated: a result whose fired tool is the request-amount tool
\* (process_market_selection) is classified BETTING_AMOUNT_REQUEST.
C10_BettingAmountRequest ==
    \A r \in Reqs :
        ClassifiedTool(r, {AmountTool}) =>
            /\ req[r].pc = "returned"
            /\ req[r].message_type = "BETTING_AMOUNT_REQUEST"

(***************************************************************************)
(* Properties of the agent pipeline (specification Spec).                  *)
(***************************************************************************)
Returned(r) == req[r].pc = "done"

Contains(seq, x) == \E i \in 1..Len(seq) : seq[i] = x

\* the tool invocation the classifier looks at: the last named ToolMessage
\* of the turn
FiredIndex(r) == LastToolIndex(req[r].new_messages, Len(req[r].new_messages))
Fired(r) == req[r].new_messages[FiredIndex(r)]
NoToolFired(r) == \A i \in 1..Len(req[r].new_messages) :
                     req[r].new_messages[i].cls # "tool"

\* C1: if agent.ainvoke raises while process_message handles a message, the
\* user's message is in the conversation's stored turns once the call has
\* returned (in _memory_store, and in the conversation file whenever the
\* call's last file write succeeded), whatever the id and the prior history.
C1_UserMessageKept ==
    \A r \in Reqs :
        (req[r].pc \in {"done", "raised"}
            /\ req[r].fault = "ainvoke") =>
        LET cid == req[r].conversation_id
            u == TextRecord("user", req[r].message)
        IN /\ cid \in DOMAIN memory_store
           /\ Contains(memory_store[cid], u)
           /\ req[r].flushed =>
                (cid \in DOMAIN files /\ Contains(files[cid], u))

\* C1 witness: agent.ainvoke raised before any tool had run, in a
\* conversation that already had stored turns, and the call has returned
C1_Witness ==
    \E r \in Reqs :
        /\ Returned(r)
        /\ req[r].fault = "ainvoke"
        /\ req[r].new_messages = <<>>
        /\ Len(req[r].messages_list) > 1

FiredTool(r, names) ==
    /\ Returned(r)
    /\ req[r].fault \in {"", "classification"}
    /\ FiredIndex(r) > 0
    /\ Fired(r).name \in names
    /\ Fired(r).status = "success"

C5_SportsSearchEveryShape ==
    \A r \in Reqs :
        FiredTool(r, SearchTools) =>
            /\ req[r].ret.message_type = "SPORTS_SEARCH"
            /\ req[r].ret.data # None

\* C8 as stated: when dp_token_bridge_finalized fired in a turn, the envelope
\* kind is TOKEN_BRIDGE and the payload is the five bridge arguments.
C8_TokenBridge ==
    \A r \in Reqs :
        FiredTool(r, {"dp_token_bridge_finalized"}) =>
            /\ req[r].ret.message_type = "TOKEN_BRIDGE"
            /\ req[r].ret.data \in {token_bridge_finalized(a) : a \in BridgeArgs}

(***************************************************************************)
(* Properties of the chat_service entry points (specification SpecChat).   *)
(***************************************************************************)
Called(entry) == chat.pc # "idle" /\ chat.entry = entry

\* the response kinds the envelope may carry
ResponseKinds == MessageType \cup {"BETTING_AMOUNT_REQUEST", "TOKEN_BRIDGE"}

\* C3 as stated: every call of process_chat_message, process_selection,
\* process_confirmation and agent.process_message returns an envelope whose
\* message_type is one of the response kinds; none lets an exception out.
C3_EnvelopeAlways ==
    /\ chat.pc # "raised"
    /\ chat.pc = "returned" => chat.ret.message_type \in ResponseKinds
    /\ \A r \in Reqs :
          /\ req[r].pc # "raised"
          /\ Returned(r) => req[r].ret.message_type \in ResponseKinds

\* C4 as stated: a turn in which no tool fired returns kind TEXT and null
\* data, in agent.process_message and, for a general-chat message whose
\* graph run completed, in process_chat_message, whatever earlier turns of
\* the conversation did.
C4_NoToolText ==
    /\ \A r \in Reqs :
          (Returned(r) /\ req[r].fault = "" /\ NoToolFired(r)) =>
              /\ req[r].ret.message_type = "TEXT"
              /\ req[r].ret.data = None
    /\ (Called("process_chat_message") /\ chat.intent = "GENERAL_CHAT"
            /\ chat.ran /\ ~chat.run_raised) =>
          /\ chat.pc = "returned"
          /\ chat.ret.message_type = "TEXT"
          /\ chat.ret.data = None

\* C6 as stated: when dp_asking_options fired in a turn of
\* agent.process_message, or the graph run of process_chat_message ended at
\* wait_for_selection with a market id, the envelope has kind MARKET_OPTIONS
\* and carries that market's selection payload.
C6_MarketOptions ==
    /\ \A r \in Reqs :
          FiredTool(r, {"dp_asking_options"}) =>
              /\ req[r].ret.message_type = "MARKET_OPTIONS"
              /\ req[r].ret.data \in AskingOptionsOutputs
    /\ (Called("process_chat_message") /\ chat.ran
            /\ chat.values.current_node = "wait_for_selection"
            /\ chat.values.market_id # "None") =>
          /\ chat.pc = "returned"
          /\ chat.ret.message_type = "MARKET_OPTIONS"
          /\ chat.ret.data.d.market_id = chat.values.market_id

(***************************************************************************)
(* Further properties of extract_tool_data (specification SpecClassify).   *)
(***************************************************************************)
\* the tool invocations a result records: its ToolMessages that name a tool
Invocations(msgs) ==
    SelectSeq(msgs, LAMBDA m : m.cls = "tool" /\ m.name # NoName)

\* what extract_tool_data returned (or that it raised), as [pc, kind, data]
Outcome(raised, message_type, data) ==
    [pc |-> IF raised THEN "raised" ELSE "returned",
     message_type |-> IF raised THEN "" ELSE message_type,
     data |-> IF raised THEN None ELSE data]

\* C11: when a result records more than one tool invocation, what
\* extract_tool_data returns is what it returns for the last recorded
\* invocation alone: the earlier invocations do not influence it.
C11_LastInvocationWins ==
    \A r \in Reqs :
        LET inv == Invocations(req[r].result.messages)
        IN (req[r].pc # "input" /\ Len(inv) > 1) =>
            LET alone == extract_tool_data([messages |-> << inv[Len(inv)] >>])
            IN Outcome(req[r].pc = "raised", req[r].message_type, req[r].data)
                 = Outcome(alone.raised, alone.message_type, alone.data)

\* C11 witness: a result with two invocations of different tools, the earlier
\* a finalize tool and the later a search, has been classified
C11_Witness ==
    \E r \in Reqs :
        LET inv == Invocations(req[r].result.messages)
        IN /\ req[r].pc = "returned"
           /\ Len(inv) = 2
           /\ inv[1].name = "dp_market_finalized"
           /\ inv[2].name = "fixture_search"
           /\ req[r].message_type = "SPORTS_SEARCH"

(***************************************************************************)
(* Slots of the market flow (specification SpecChat).                      *)
(***************************************************************************)
\* the slots a market's finalized payload requires: market id, the two
\* selections, a selected_id naming one of them, a bet amount
SlotsComplete(v) ==
    /\ v.market_id # "None"
    /\ Len(v.selections) = 2
    /\ \E i \in 1..Len(v.selections) : v.selections[i].id = v.selected_id
    /\ v.bet_amount # "None"

\* the assistant texts that ask the user for a missing field
AskingTexts == {"selection_not_understood", "invalid_selection", "created_market"}

\* the finalize step has acted on a thread: its checkpoint is an open market
Finalized(v) == v.status = "open"

\* no checkpoint ever holds a market opened by the confirmation node: every
\* run starts at process_message, which never routes to the waiting nodes,
\* and create_market replaces the context, dropping "confirmed"
NoFinalizeReached ==
    \A cid \in DOMAIN checkpointer : ~Finalized(checkpointer[cid])

\* C12: a confirmation turn on a conversation whose required slots are not
\* all set finalizes nothing and ends by asking the user for the missing
\* field (it returns an envelope whose text is such a request).
C12_FinalizeNeedsSlots ==
    (/\ Called("process_confirmation")
     /\ chat.ran
     /\ ~SlotsComplete(chat.values))
        => /\ ~Finalized(chat.values)
           /\ chat.pc = "returned"
           /\ chat.ret.message \in AskingTexts

(***************************************************************************)
(* Finalize-class tools within one turn (specification Spec).              *)
(***************************************************************************)
FinalizeTools ==
    {"dp_market_finalized", "dp_token_bridge_finalized", "dp_token_swap_finalized"}

\* the finalize-class tool results of a turn that ran to completion
FinalizeResults(msgs) ==
    SelectSeq(msgs, LAMBDA m : /\ m.cls = "tool"
                               /\ m.name \in FinalizeTools
                               /\ m.status = "success")

\* the tool records of conversation cid that store one of these results
FinalizeRecords(cid, msgs) ==
    LET calls == {FinalizeResults(msgs)[i].tool_call_id :
                     i \in 1..Len(FinalizeResults(msgs))}
        stored == Lookup(memory_store, cid)
    IN {i \in 1..Len(stored) :
           stored[i].type = "tool" /\ stored[i].tool_call_id \in calls}

\* C13: in a turn of process_message that has ended, at most one
\* finalize-class tool was executed (its result is in the turn's result
\* state) and at most one was recorded in the conversation's memory.
C13_AtMostOneFinalize ==
    \A r \in Reqs :
        req[r].pc = "done" =>
            /\ Len(FinalizeResults(req[r].new_messages)) <= 1
            /\ Cardinality(FinalizeRecords(req[r].conversation_id,
                                           req[r].new_messages)) <= 1

(***************************************************************************)
(* app/services/memory_service.py on its own (specification SpecMemory):   *)
(* a caller saves and loads in any order, for any id, while the disk may   *)
(* fail and the process may be restarted (the cache _memory_store is lost, *)
(* the files stay).  client logs, per id, the records appended since the   *)
(* process started (appended) and what the id's file held at that moment   *)
(* (persisted, had_file), whether a call was made while the disk failed    *)
(* (faulted), and the last call (op, cid) with what it returned (msgs).    *)
(***************************************************************************)
MaxCalls == 4

StartClient(f) ==
    [op |-> "start", cid |-> "", msgs |-> <<>>,
     appended |-> [c \in ConvIds |-> <<>>],
     persisted |-> [c \in ConvIds |-> IF c \in DOMAIN f THEN f[c] ELSE <<>>],
     had_file |-> [c \in ConvIds |-> c \in DOMAIN f],
     faulted |-> FALSE]

\* the caller's log after a call op on cid that appended rec (or nothing)
\* and returned msgs
Logged(op, cid, recs, msgs) ==
    [client EXCEPT !.op = op, !.cid = cid, !.msgs = msgs,
                   !.appended[cid] = @ \o recs,
                   !.faulted = @ \/ ~disk_ok]

InitMemory ==
    /\ memory_store = EmptyMap
    /\ files \in InitFiles
    /\ disk_ok = TRUE
    /\ req = [r \in Reqs |-> Idle]
    /\ turns = 0
    /\ checkpointer = EmptyMap
    /\ chat = NoCall
    /\ client = StartClient(files)

\* a call of save_message (lines 21-57)
SaveMessage(cid, role, content) ==
    /\ turns < MaxCalls
    /\ LET st == save_message(Store, cid, role, content, disk_ok)
       IN /\ memory_store' = st.mem
          /\ files' = st.files
    /\ client' = Logged("save_message", cid, << TextRecord(role, content) >>, <<>>)
    /\ turns' = turns + 1
    /\ UNCHANGED <<disk_ok, req, checkpointer, chat>>

\* a call of save_tool_message (lines 59-105)
SaveToolMessage(cid, call, content, status, artifact) ==
    /\ turns < MaxCalls
    /\ LET st == save_tool_message(Store, cid, call, content, status, artifact,
                                   disk_ok)
       IN /\ memory_store' = st.mem
          /\ files' = st.files
    /\ client' = Logged("save_tool_message", cid,
                        << ToolRecord(call, content, status, artifact) >>, <<>>)
    /\ turns' = turns + 1
    /\ UNCHANGED <<disk_ok, req, checkpointer, chat>>

\* a call of get_memory_messages (lines 107-143)
GetMemoryMessages(cid) ==
    /\ turns < MaxCalls
    /\ LET g == get_memory_messages(Store, cid, disk_ok)
       IN /\ memory_store' = g.st.mem
          /\ files' = g.st.files
          /\ client' = Logged("get_memory_messages", cid, <<>>, g.msgs)
    /\ turns' = turns + 1
    /\ UNCHANGED <<disk_ok, req, checkpointer, chat>>

\* a call of get_raw_messages (lines 229-256)
GetRawMessages(cid) ==
    /\ turns < MaxCalls
    /\ LET g == get_raw_messages(Store, cid, disk_ok)
       IN /\ memory_store' = g.st.mem
          /\ files' = g.st.files
          /\ client' = Logged("get_raw_messages", cid, <<>>, g.msgs)
    /\ turns' = turns + 1
    /\ UNCHANGED <<disk_ok, req, checkpointer, chat>>

\* the process is restarted: _memory_store (line 8) is empty again, the
\* files are what they were
Restart ==
    /\ memory_store # EmptyMap
    /\ memory_store' = EmptyMap
    /\ client' = StartClient(files)
    /\ UNCHANGED <<files, disk_ok, req, turns, checkpointer, chat>>

ToolText(n) == json_dumps(JObj([sports_data |-> UserMsg(n)]))

NextMemory ==
    \/ DiskChanges
    \/ Restart
    \/ \E cid \in ConvIds :
         SaveMessage(cid, "user", UserMsg(turns + 1))
    \/ \E cid \in ConvIds :
         SaveToolMessage(cid, turns + 1, ToolText(turns + 1), "success",
                         JObj([sports_data |-> UserMsg(turns + 1)]))
    \/ \E cid \in ConvIds : GetMemoryMessages(cid)
    \/ \E cid \in ConvIds : GetRawMessages(cid)

SpecMemory == InitMemory /\ [][NextMemory]_vars

C15_DurableAcrossRestart ==
    \A cid \in ConvIds :
        (client.op # "none" /\ client.had_file[cid] /\ ~client.faulted) =>
            LET expected == client.persisted[cid] \o client.appended[cid]
            IN /\ cid \in DOMAIN files
               /\ files[cid] = expected
               /\ get_raw_messages(Store, cid, TRUE).msgs = expected

(***************************************************************************)
(* The two stores together (specification SpecStores): saves and loads of  *)
(* the memory service on a working disk, and first and later chat messages *)
(* through chat_service.process_chat_message, which loads the conversation *)
(* state from the checkpointer.                                            *)
(***************************************************************************)
NextStores ==
    \/ \E cid \in ConvIds : SaveMessage(cid, "user", UserMsg(turns + 1))
    \/ \E cid \in ConvIds : GetMemoryMessages(cid)
    \/ \E cid \in ConvIds : GetRawMessages(cid)
    \/ \E cid \in ConvIds, env \in ChatEnvs :
         process_chat_message(cid, UserMsg(turns + 1), env)

SpecStores == InitMemory /\ [][NextStores]_vars

\* the id has no stored record in the memory service: no cache entry with
\* records, no file
NoRecord(cid) ==
    /\ cid \notin DOMAIN files
    /\ cid \in DOMAIN memory_store => memory_store[cid] = <<>>

UserTexts(msgs) == SelectSeq(msgs, LAMBDA m : m.role = "user")

\* C16: a load of an id without stored record returns the empty
\* conversation: get_memory_messages and get_raw_messages return [] and
\* leave an empty cache entry, get_conversation_state returns the empty
\* state; and a chat message for an id without checkpoint starts a
\* conversation whose only user message is that message.
C16_LoadOfUnknownIsFresh ==
    [][\A cid \in ConvIds :
         /\ (/\ NoRecord(cid)
             /\ client'.op \in {"get_memory_messages", "get_raw_messages"}
             /\ client'.cid = cid
             /\ turns' = turns + 1)
                => /\ client'.msgs = <<>>
                   /\ cid \in DOMAIN memory_store'
                   /\ memory_store'[cid] = <<>>
         /\ cid \notin DOMAIN checkpointer
                => /\ ~get_conversation_state(cid, TRUE).found
                   /\ get_conversation_state(cid, TRUE).values = InitialState
         /\ (/\ cid \notin DOMAIN checkpointer
             /\ cid \in DOMAIN checkpointer')
                => /\ chat'.entry = "process_chat_message"
                   /\ chat'.conversation_id = cid
                   /\ UserTexts(checkpointer'[cid].messages)
                        = << Msg("user", UserMsg(turns + 1)) >>
                   /\ checkpointer'[cid].messages[1] = Msg("user", UserMsg(turns + 1))
      ]_vars

\* C16 witness: c2 had no file and no checkpoint; a first chat message for
\* it has been handled and left a checkpoint, and a load of c2 from the
\* memory service has returned the empty list
C16_Witness ==
    /\ ~client.had_file["c2"]
    /\ client.appended["c2"] = <<>>
    /\ client.op \in {"get_memory_messages", "get_raw_messages"}
    /\ client.cid = "c2"
    /\ client.msgs = <<>>
    /\ Called("process_chat_message")
    /\ chat.conversation_id = "c2"
    /\ "c2" \in DOMAIN checkpointer
    /\ Len(checkpointer["c2"].messages) >= 1

(***************************************************************************)
(* Persistence failures during a turn (specification Spec).                *)
(***************************************************************************)
\* C17: when the file writes of a turn's last saves failed (the disk was
\* failing when process_message stored the turn), the call ends with an
\* ERROR envelope, and the user's message is still in the stored turns.
C17_PersistenceFailureSurfaced ==
    \A r \in Reqs :
        (Returned(r) /\ ~req[r].flushed) =>
            /\ req[r].ret.message_type = "ERROR"
            /\ Contains(Lookup(memory_store, req[r].conversation_id),
                        TextRecord("user", req[r].message))

(***************************************************************************)
(* The slot patch (specification SpecChat).                                *)
(***************************************************************************)
HasPatch == chat.pc # "idle" /\ "patch" \in DOMAIN chat

\* the patch keys hold the patch's values, every other key is as before
PatchApplied ==
    HasPatch /\ chat.patch.outcome # "raised" =>
        \A k \in DOMAIN chat.patch.before :
            chat.patch.after[k] = IF k \in DOMAIN chat.patch.updates
                                  THEN chat.patch.updates[k]
                                  ELSE chat.patch.before[k]

\* C18: a slot patch that does not raise sets the patch keys, leaves the
\* other keys unchanged, and returns the merged slot set, the one a load
\* made right after it returns.
C18_PatchReturnsMerged ==
    /\ PatchApplied
    /\ HasPatch /\ chat.patch.outcome # "raised" => chat.patch.ret = "state"

(***************************************************************************)
(* The slots over the life of a flow instance (specification SpecChat).    *)
(***************************************************************************)
Slots == {"market_id", "selections", "selected_id", "selected_option", "bet_amount"}

NonNull(v, k) == IF k = "selections" THEN v[k] # <<>> ELSE v[k] # "None"

\* the step keeps the thread in its flow instance: it does not create a
\* market with a new id
SameInstance(old, new) ==
    new.market_id = old.market_id \/ new.market_id = "None"

\* no step nulls a slot of the instance it acts on
SlotsKept(cid) ==
    SameInstance(checkpointer[cid], checkpointer'[cid]) =>
        \A k \in Slots :
            NonNull(checkpointer[cid], k) => NonNull(checkpointer'[cid], k)

\* C19: within one flow instance a slot that is non-null (market_id,
\* selections, selected_id, selected_option, bet_amount) stays non-null
\* through every later graph step, patch and chat turn of that instance.
C19_SlotsMonotone ==
    [][\A cid \in DOMAIN checkpointer : SlotsKept(cid)]_vars

(***************************************************************************)
(* A conversation after a finished flow (specification SpecFlow).  Under   *)
(* SpecChat no run gets past wait_for_selection, so no thread reaches a    *)
(* terminal state there.  SpecFlow starts the entry points of chat_service *)
(* on a thread whose checkpoint is the one a flow leaves when its nodes    *)
(* run in the designed order: create_market, the selection patch and       *)
(* node, the confirmation patch and node.                                  *)
(***************************************************************************)
EarlierDraw == 4

FinishedFlow(sel, confirmed) ==
    LET env == [n |-> EarlierDraw]
        s0 == ApplyUpdate(InitialState, [messages |-> << Msg("user", "m0") >>])
        s1 == ApplyUpdate(s0, create_market(s0, env))
        s2 == ApplyUpdate(s1, [selected_id |-> sel, bet_amount |-> "2.5"])
        s3 == ApplyUpdate(s2, node_process_selection(s2, env))
        s4 == ApplyUpdate(s3, [confirmed |-> confirmed])
    IN ApplyUpdate(s4, node_process_confirmation(s4, env))

TerminalStates ==
    {FinishedFlow(sel, confirmed) :
        sel \in {WinId(EarlierDraw), DrawLoseId(EarlierDraw)},
        confirmed \in {"True", "False"}}

Terminal(v) == v.status \in {"open", "cancelled"} /\ v.current_node = "end"

InitFlow ==
    /\ memory_store = EmptyMap
    /\ files = EmptyMap
    /\ disk_ok = TRUE
    /\ req = [r \in Reqs |-> Idle]
    /\ turns = 0
    /\ checkpointer \in {Put(EmptyMap, cid, t) :
                            cid \in ConvIds, t \in TerminalStates}
    /\ chat = NoCall
    /\ client = NoClient

SpecFlow == InitFlow /\ [][NextChat]_vars

Nodes == {"process_message", "create_market", "sports_info",
          "wait_for_selection", "wait_for_confirmation"}

\* a node that hands the market to the execution service whenever it runs,
\* whatever the confirmed flag says
ExecutionRequests_Unconfirmed(node, state) ==
    IF node = "wait_for_confirmation"
    THEN << [id |-> state.market_id, selections |-> state.selections,
             bet_amount |-> state.bet_amount, selected_id |-> state.selected_id] >>
    ELSE <<>>

\* the requests a node sends while it runs: only process_confirmation calls
\* request_market_creation (chat_graph.py line 540), after the early return
\* of the not-confirmed branch (lines 515-524)
ExecutionRequests(node, state) ==
    IF node = "wait_for_confirmation" /\ state.confirmed = "True"
    THEN << [id |-> state.market_id, selections |-> state.selections,
             bet_amount |-> state.bet_amount, selected_id |-> state.selected_id] >>
    ELSE <<>>

\* the states of a flow at every stage, with any selection and any
\* confirmation the patches can have written
FlowStates ==
    LET env == [n |-> EarlierDraw]
        s0 == ApplyUpdate(InitialState, [messages |-> << Msg("user", "m0") >>])
        s1 == ApplyUpdate(s0, create_market(s0, env))
        Sel(sel) == ApplyUpdate(s1, [selected_id |-> sel, bet_amount |-> "2.5"])
        Chosen(sel) == ApplyUpdate(Sel(sel), node_process_selection(Sel(sel), env))
        Sels == {WinId(EarlierDraw), DrawLoseId(EarlierDraw), "", "bogus"}
        Stages == {s0, s1} \cup {Sel(sel) : sel \in Sels}
                           \cup {Chosen(sel) : sel \in Sels}
    IN {[s EXCEPT !.confirmed = c] : s \in Stages, c \in {"None", "True", "False"}}
       \cup TerminalStates

NodeInput(node, state, intent) ==
    [pc |-> "input", node |-> node, state |-> state, intent |-> intent,
     update |-> [current_node |-> "None"], requests |-> <<>>]

InitNodes ==
    /\ memory_store = EmptyMap
    /\ files = EmptyMap
    /\ disk_ok = TRUE
    /\ req = [r \in Reqs |-> Idle]
    /\ turns = 0
    /\ checkpointer = EmptyMap
    /\ chat \in {NodeInput(node, state, intent) :
                    node \in Nodes, state \in FlowStates, intent \in Intents}
    /\ client = NoClient

\* one node runs on its state
NodeRuns ==
    /\ chat.pc = "input"
    /\ chat' = [chat EXCEPT
                  !.pc = "ran",
                  !.update = RunNode(chat.node, chat.state,
                                     [intent |-> chat.intent, n |-> 1]),
                  !.requests = ExecutionRequests(chat.node, chat.state)]
    /\ UNCHANGED <<memory_store, files, disk_ok, req, turns, checkpointer, client>>

NextNodes == NodeRuns

SpecNodes == InitNodes /\ [][NextNodes]_vars

\* C21: a request reaches the execution service only from the confirmation
\* step on a state whose confirmed flag is true; the message, create-market
\* (option presentation), sports and selection steps send none, and the
\* confirmation step sends none when the flag is false or absent.
C21_ExecutionOnlyOnConfirm ==
    chat.pc = "ran" =>
        /\ chat.requests # <<>> =>
              (chat.node = "wait_for_confirmation" /\ chat.state.confirmed = "True")
        /\ Len(chat.requests) <= 1
        /\ chat.requests # <<>> => chat.update.status = "open"

\* C21 witness: the confirmation step ran on a confirmed flow and sent the
\* market to the execution service
C21_Witness ==
    /\ chat.pc = "ran"
    /\ chat.node = "wait_for_confirmation"
    /\ chat.state.confirmed = "True"
    /\ Len(chat.requests) = 1
    /\ chat.requests[1].id = MarketId(EarlierDraw)

(***************************************************************************)
(* Overlapping calls of agent.process_message (specification SpecOverlap). *)
(* process_message is a coroutine with one await (agent.ainvoke, line      *)
(* 267): while one request is suspended there, the event loop can start or *)
(* resume another.  Two requests, for the same or for different            *)
(* conversation ids; the n-th request to arrive carries the message        *)
(* UserMsg(n) and is answered by ReplyTo(UserMsg(n)).                      *)
(***************************************************************************)
Requests == {"r1", "r2"}

ReplyTo(message) == IF message = UserMsg(1) THEN "a1" ELSE "a2"

InitOverlap ==
    /\ memory_store = EmptyMap
    /\ files \in InitFiles
    /\ disk_ok = TRUE
    /\ req = [r \in Requests |-> Idle]
    /\ turns = 0
    /\ checkpointer = EmptyMap
    /\ chat = NoCall
    /\ client = NoClient

NextOverlap ==
    \/ \E r \in Requests, cid \in ConvIds : Receive(r, cid, UserMsg(turns + 1))
    \/ \E r \in Requests : \E out \in AskingOptionsOutputs :
         ToolReturns(r, "dp_asking_options", out)
    \/ \E r \in Requests : InvokeRaises(r)
    \/ \E r \in Requests : InvokeReturns(r, ReplyTo(req[r].message))

SpecOverlap == InitOverlap /\ [][NextOverlap]_vars

\* the index of the first record equal to rec in the stored turns of cid,
\* 0 when there is none
IndexOf(cid, rec) ==
    LET stored == Lookup(memory_store, cid)
    IN IF \E i \in 1..Len(stored) : stored[i] = rec
       THEN CHOOSE i \in 1..Len(stored) :
               stored[i] = rec /\ \A j \in 1..(i - 1) : stored[j] # rec
       ELSE 0

\* C22: when two requests for the same conversation id have both returned
\* an answer, the stored turns hold the user turn and the assistant reply
\* of the request that arrived first before the user turn of the request
\* that arrived second.
C22_ArrivalOrderKept ==
    \A r1 \in Requests, r2 \in Requests :
        (/\ req[r1].pc = "done" /\ req[r2].pc = "done"
         /\ req[r1].fault = "" /\ req[r2].fault = ""
         /\ req[r1].conversation_id = req[r2].conversation_id
         /\ req[r1].message = UserMsg(1)
         /\ req[r2].message = UserMsg(2))
        => LET cid == req[r1].conversation_id
               u1 == IndexOf(cid, TextRecord("user", UserMsg(1)))
               a1 == IndexOf(cid, TextRecord("assistant", ReplyTo(UserMsg(1))))
               u2 == IndexOf(cid, TextRecord("user", UserMsg(2)))
           IN 0 < u1 /\ u1 < a1 /\ a1 < u2

\* C23: a step of a request for conversation id A (receiving the message,
\* or storing and classifying the result of agent.ainvoke) leaves the
\* stored turns and tool records of every other id as they were, in
\* _memory_store and in the files, whatever other request is under way.
C23_OtherIdsUntouched ==
    [][\A r \in DOMAIN req :
          req'[r] # req[r] =>
             \A id \in (DOMAIN memory_store') \cup (DOMAIN files') :
                id # req'[r].conversation_id =>
                   /\ Lookup(memory_store', id) = Lookup(memory_store, id)
                   /\ Lookup(files', id) = Lookup(files, id)
      ]_vars

(***************************************************************************)
(* A graph run that fails after a slot patch (specification SpecChat).     *)
(***************************************************************************)
\* C24: when process_selection or process_confirmation has patched the
\* slots and the graph run that follows fails, the checkpoint of the
\* conversation is the one it held before the request.
C24_FailedRunRollsBack ==
    HasPatch /\ chat.patch.outcome # "raised" /\ chat.run_raised =>
        checkpointer[chat.conversation_id] = chat.patch.before

(***************************************************************************)
(* The GAME football worker tool (tools/game_football_tool.py,             *)
(* game_worker.py), specification SpecWorker.  chat holds the worker       *)
(* object and the last call of call_football_worker_sync.                  *)
(***************************************************************************)
\* game_worker.get_football_worker_state (lines 17-36): function_result is
\* "None", or a record [info, failed]
get_football_worker_state(function_result, current_state) ==
    LET new_state == IF current_state = "None"
                     THEN [last_search_result |-> "None"]
                     ELSE current_state
    IN IF function_result # "None" /\ function_result.info # "None"
       THEN [new_state EXCEPT !.last_search_result = function_result.info]
       ELSE IF function_result # "None" /\ function_result.failed
       THEN [new_state EXCEPT !.last_search_result = "error"]
       ELSE new_state

\* AsyncWorkerWrapper.run_async (lines 153-159) is an async def: the call
\* builds a coroutine object, and worker.run is entered only when the
\* coroutine is awaited or scheduled
run_async(instruction) == [instruction |-> instruction, run |-> "not_started"]

\* c_sports_tools (lines 72-111): the fallback search; an unknown action and
\* a search that raises both give an error dictionary
c_sports_tools(action, outcome) ==
    IF action = "other" THEN [kind |-> "error", action |-> action]
    ELSE IF outcome = "raises" THEN [kind |-> "error", action |-> action]
    ELSE [kind |-> outcome, action |-> action]

InitWorker ==
    /\ memory_store = EmptyMap
    /\ files = EmptyMap
    /\ disk_ok = TRUE
    /\ req = [r \in Reqs |-> Idle]
    /\ turns = 0
    /\ checkpointer = EmptyMap
    /\ client = NoClient
    /\ \E kind \in {"Worker", "MockWorker"} :
         chat = [pc |-> "idle", worker |-> kind,
                 state |-> IF kind = "Worker"
                           THEN get_football_worker_state("None", "None")
                           ELSE [error |-> "Worker initialization failed"]]

\* call_football_worker_sync (lines 10-59).  read holds what the function
\* saw when it read async_football_worker.state: the coroutine of this call
\* and the value found under last_search_result ({} when the key is absent).
call_football_worker_sync(action, search_term, outcome) ==
    /\ turns < MaxCalls
    /\ LET coroutine == run_async(<<action, search_term>>)
           worker_state == chat.state
           result == IF "last_search_result" \in DOMAIN worker_state
                     THEN worker_state.last_search_result
                     ELSE "{}"
           ret == IF result = "{}" THEN [kind |-> "empty_dict", action |-> action]
                  ELSE IF result = "None" \/ result = "error"
                  THEN c_sports_tools(action, outcome)
                  ELSE [kind |-> "search_result", action |-> action]
       IN chat' = [pc |-> "returned", worker |-> chat.worker,
                   state |-> worker_state,
                   read |-> [coroutine |-> coroutine, result |-> result],
                   ret |-> ret]
    /\ turns' = turns + 1
    /\ UNCHANGED <<memory_store, files, disk_ok, req, checkpointer, client>>

NextWorker ==
    \E action \in {"search_leagues", "search_teams", "search_fixtures", "other"},
       search_term \in {"", "arsenal"},
       outcome \in {"found", "empty", "raises"} :
        call_football_worker_sync(action, search_term, outcome)

SpecWorker == InitWorker /\ [][NextWorker]_vars

\* C25: whenever call_football_worker_sync has read last_search_result, the
\* worker's run for the instruction of that call had finished.
C25_RunFinishedBeforeRead ==
    chat.pc = "returned" => chat.read.coroutine.run = "finished"

(***************************************************************************)
(* A tool handler that fails (specification Spec).                         *)
(***************************************************************************)
\* the tool messages of request r whose status reports a failed handler
FailedCalls(r) ==
    {i \in 1..Len(req[r].new_messages) :
        /\ req[r].new_messages[i].cls = "tool"
        /\ req[r].new_messages[i].status = "error"}

\* C26: when a tool handler of a turn failed, the turn ends with an envelope
\* (it does not raise), and every tool record stored for the failed call,
\* under any id, has a status other than "success".
C26_FailedToolStoredAsFailure ==
    \A r \in DOMAIN req :
        req[r].pc \in {"done", "raised"} /\ req[r].fault # "ainvoke" =>
            \A i \in FailedCalls(r) :
                /\ req[r].pc = "done"
                /\ \A id \in DOMAIN memory_store :
                     \A k \in 1..Len(memory_store[id]) :
                        LET rec == memory_store[id][k]
                        IN rec.type = "tool" /\
                           rec.tool_call_id = req[r].new_messages[i].tool_call_id
                               => rec.status # "success"

(***************************************************************************)
(* The sports search (services/sports_service.py, tools/sports_tools.py),  *)
(* specification SpecSports.  An http outcome is what the request to the   *)
(* provider did: "hit" (200 with records), "nomatch" (200 with an empty    *)
(* response), "http_error" (another status), "transport" (httpx raises).   *)
(***************************************************************************)
HttpOutcomes == {"hit", "nomatch", "http_error", "transport"}

\* sports_service.search_teams (lines 18-47): [fn, http, raised, v]
search_teams(http) ==
    [fn |-> "search_teams", http |-> http, raised |-> FALSE,
     v |-> IF http = "hit" THEN <<"team1">> ELSE <<>>]

\* sports_service.get_fixtures (lines 50-156)
get_fixtures(http) ==
    [fn |-> "get_fixtures", http |-> http, raised |-> FALSE,
     v |-> IF http = "hit" THEN <<"fixture1">> ELSE <<>>]

\* sports_service.get_leagues (lines 159-203)
get_leagues(http) ==
    [fn |-> "get_leagues", http |-> http, raised |-> FALSE,
     v |-> IF http = "hit" THEN <<"league1">> ELSE <<>>]

\* sports_tools.get_sports_information (lines 141-315) on the query that
\* extract_sports_query and parse_date gave, with the provider's outcome
\* per endpoint and the outcome of the answering LLM ("ok", "init_raises",
\* "invoke_raises"): [raised, message, sports_data, calls]
get_sports_information(q, http, llm) ==
    LET by_fixture == q.query_type = "specific_fixture" /\ q.fixture_id # "None"
        by_team == ~by_fixture /\ q.query_type = "team_search" /\ q.teams # <<>>
        by_date == ~by_fixture /\ ~by_team
                   /\ q.query_type = "date_search" /\ q.parsed_date # "None"
        general == ~by_fixture /\ ~by_team /\ ~by_date
        team_calls == IF (by_team \/ general) /\ q.teams # <<>>
                      THEN {search_teams(http.teams)} ELSE {}
        teams == IF team_calls = {} THEN <<>> ELSE search_teams(http.teams).v
        league_calls == IF general /\ q.league # "None"
                        THEN {get_leagues(http.leagues)} ELSE {}
        fixture_calls == IF by_team /\ teams = <<>>
                         THEN {} ELSE {get_fixtures(http.fixtures)}
        fixtures == IF fixture_calls = {} THEN <<>>
                    ELSE get_fixtures(http.fixtures).v
        error_msg == IF fixtures = <<>> /\ teams = <<>>
                     THEN "couldnt_find_any_sports_information" ELSE "None"
        response_content ==
            IF llm = "init_raises" THEN "having_trouble_retrieving"
            ELSE IF error_msg # "None" THEN error_msg
            ELSE IF llm = "invoke_raises" THEN "having_trouble_retrieving"
            ELSE "llm_summary"
    IN [raised |-> FALSE, message |-> response_content,
        sports_data |-> [fixtures |-> fixtures, teams |-> teams],
        calls |-> team_calls \cup league_calls \cup fixture_calls]

InitSports ==
    /\ memory_store = EmptyMap
    /\ files = EmptyMap
    /\ disk_ok = TRUE
    /\ req = [r \in Reqs |-> Idle]
    /\ turns = 0
    /\ checkpointer = EmptyMap
    /\ client = NoClient
    /\ chat \in [pc : {"input"},
                 q : [query_type : {"team_search", "fixture_search",
                                    "date_search", "specific_fixture"},
                      teams : {<<>>, <<"arsenal">>},
                      league : {"None", "epl"},
                      parsed_date : {"None", "d1"},
                      fixture_id : {"None", "12345"}],
                 http : [teams : HttpOutcomes, fixtures : HttpOutcomes,
                         leagues : HttpOutcomes],
                 llm : {"ok", "init_raises", "invoke_raises"},
                 ret : {[raised |-> FALSE]}]

\* the tool get_sports_information runs once on its input
SportsTurn ==
    /\ chat.pc = "input"
    /\ chat' = [chat EXCEPT !.pc = "returned",
                            !.ret = get_sports_information(chat.q, chat.http,
                                                           chat.llm)]
    /\ UNCHANGED <<memory_store, files, disk_ok, req, turns, checkpointer, client>>

SpecSports == InitSports /\ [][SportsTurn]_vars

\* the fixed texts with which get_sports_information reports a search that
\* gave nothing or went wrong
SearchFailedTexts ==
    {"couldnt_find_any_sports_information", "error_while_retrieving",
     "having_trouble_retrieving"}

\* C27: a provider function that finds no match returns [] and does not
\* raise; when a request to the provider failed in transport the turn
\* raises nothing and its text is one of the search-failed texts.
C27_SearchFailureIsReported ==
    chat.pc = "returned" =>
        /\ \A c \in chat.ret.calls :
              ~c.raised /\ (c.http = "nomatch" => c.v = <<>>)
        /\ ~chat.ret.raised
        /\ (\E c \in chat.ret.calls : c.http = "transport")
              => chat.ret.message \in SearchFailedTexts

(***************************************************************************)
(* extract_tool_data as a function (specification SpecClassify).           *)
(***************************************************************************)
\* C28: a call of extract_tool_data on a result state returns what another
\* call on the same result state returns, and leaves the conversation store
\* (_memory_store and the files) as it was.
C28_ExtractToolDataIsPure ==
    [][\A r \in DOMAIN req :
          req[r].pc = "input" /\ req'[r].pc \in {"returned", "raised"} =>
             LET again == extract_tool_data(req'[r].result)
             IN /\ again.raised = (req'[r].pc = "raised")
                /\ ~again.raised =>
                      /\ again.message_type = req'[r].message_type
                      /\ again.data = req'[r].data
                /\ memory_store' = memory_store
                /\ files' = files
      ]_vars

(***************************************************************************)
(* The create-market steps (graph/market_graph.py, graph/chat_graph.py,    *)
(* tools/market_tools.py), specification SpecMarkets.  target_fixture is   *)
(* of kind "none" (None), "fixture" (with its home and away teams) or      *)
(* "malformed" (a provider record without the keys the step reads: the     *)
(* step raises KeyError and returns no market).                            *)
(***************************************************************************)
Fixtures == [kind : {"none", "malformed"}, home : {""}, away : {""}] \cup
            [kind : {"fixture"}, home : {"Arsenal", "Chelsea"}, away : {"Everton"}]

\* the fallback branch of chat_graph.create_market that offers one option
FallbackSelections_WinOnly(team_names, with_id) ==
    << [name |-> "Team Win", type |-> "win"] >>

\* the generic fallback of chat_graph.create_market (lines 407-431) and of
\* create_prediction_market (lines 224-241); team_a is team_names[0], or
\* "Team A" for an empty list
FallbackSelections(team_names, with_id) ==
    LET team_a == IF Len(team_names) > 0 THEN team_names[1] ELSE "Team A"
        sel(id, suffix, type) ==
            IF with_id THEN [id |-> id, name |-> <<team_a, suffix>>, type |-> type]
            ELSE [name |-> <<team_a, suffix>>, type |-> type]
    IN << sel(WinId(1), "Win", "win"),
          sel(DrawLoseId(1), "Draw/Lose", "draw_lose") >>

\* market_graph.create_market (lines 83-180): the three branches on the text
\* of the latest message
market_graph_create_market(text) ==
    [raised |-> FALSE,
     selections |->
        IF text = "manchester city united"
        THEN << [id |-> WinId(1), name |-> "Manchester City Win", type |-> "win"],
                [id |-> DrawLoseId(1), name |-> "Manchester City Draw/Lose",
                 type |-> "draw_lose"] >>
        ELSE IF text = "bitcoin"
        THEN << [id |-> WinId(1), name |-> "Price Increase", type |-> "win"],
                [id |-> DrawLoseId(1), name |-> "Price Decrease or No Change",
                 type |-> "draw_lose"] >>
        ELSE << [id |-> WinId(1), name |-> "Option A", type |-> "win"],
                [id |-> DrawLoseId(1), name |-> "Option B",
                 type |-> "draw_lose"] >>]

\* chat_graph.create_market (lines 366-453) on the fixture that lines
\* 326-364 chose and the teams of market_info
chat_graph_create_market(target_fixture, team_names) ==
    IF target_fixture.kind = "malformed"
    THEN [raised |-> TRUE, selections |-> <<>>]
    ELSE IF target_fixture.kind # "none"
    THEN [raised |-> FALSE,
          selections |->
            << [id |-> WinId(1), name |-> <<target_fixture.home, "Win">>,
                type |-> "win"],
               [id |-> DrawLoseId(1), name |-> <<target_fixture.home, "Draw/Lose">>,
                type |-> "draw_lose"] >>]
    ELSE [raised |-> FALSE, selections |-> FallbackSelections(team_names, TRUE)]

\* market_tools.create_prediction_market (lines 158-310): the selections
\* carry no id
create_prediction_market(target_fixture, team_names) ==
    IF target_fixture.kind = "malformed"
    THEN [raised |-> TRUE, selections |-> <<>>]
    ELSE IF target_fixture.kind # "none"
    THEN [raised |-> FALSE,
          selections |->
            << [name |-> <<target_fixture.home, "Win">>, type |-> "win"],
               [name |-> <<target_fixture.home, "Draw/Lose">>,
                type |-> "draw_lose"] >>]
    ELSE [raised |-> FALSE, selections |-> FallbackSelections(team_names, FALSE)]

InitMarkets ==
    /\ memory_store = EmptyMap
    /\ files = EmptyMap
    /\ disk_ok = TRUE
    /\ req = [r \in Reqs |-> Idle]
    /\ turns = 0
    /\ checkpointer = EmptyMap
    /\ client = NoClient
    /\ chat \in [pc : {"input"},
                 fn : {"market_graph.create_market", "chat_graph.create_market",
                       "create_prediction_market"},
                 text : {"manchester city united", "bitcoin", "other"},
                 target_fixture : Fixtures,
                 team_names : {<<>>, <<"Leeds">>, <<"Leeds", "Fulham">>},
                 ret : {[raised |-> FALSE, selections |-> <<>>]}]

\* one create-market step runs on its input
CreateMarket ==
    /\ chat.pc = "input"
    /\ chat' = [chat EXCEPT
                  !.pc = "ran",
                  !.ret = IF chat.fn = "market_graph.create_market"
                          THEN market_graph_create_market(chat.text)
                          ELSE IF chat.fn = "chat_graph.create_market"
                          THEN chat_graph_create_market(chat.target_fixture,
                                                        chat.team_names)
                          ELSE create_prediction_market(chat.target_fixture,
                                                        chat.team_names)]
    /\ UNCHANGED <<memory_store, files, disk_ok, req, turns, checkpointer, client>>

SpecMarkets == InitMarkets /\ [][CreateMarket]_vars

\* the number of selections of a market that have the type
CountType(selections, type) ==
    Cardinality({i \in 1..Len(selections) : selections[i].type = type})

\* C29: a market that a create-market step returns has exactly two
\* selections, one of type win and one of type draw_lose, whichever branch
\* built it.
C29_TwoSelectionsWinAndDrawLose ==
    chat.pc = "ran" /\ ~chat.ret.raised =>
        /\ Len(chat.ret.selections) = 2
        /\ CountType(chat.ret.selections, "win") = 1
        /\ CountType(chat.ret.selections, "draw_lose") = 1

\* the fallback branch of chat_graph.create_market has built a market, for
\* an empty list of teams
C29_Witness ==
    /\ chat.pc = "ran"
    /\ chat.fn = "chat_graph.create_market"
    /\ chat.target_fixture.kind = "none"
    /\ chat.team_names = <<>>
    /\ ~chat.ret.raised
    /\ Len(chat.ret.selections) = 2

(***************************************************************************)
(* The message of an error envelope (specifications Spec and SpecChat).    *)
(***************************************************************************)
\* the fixed texts of the error paths: agent.py line 327, chat_service.py
\* lines 161, 192, 245, 274 and 334
FriendlyErrorTexts ==
    {error_message, "error_processing_request", "error_processing_selection",
     "error_processing_confirmation", "conversation_not_found"}

\* a call of a chat_service entry point that took an error path: the state
\* was not found, the graph run raised, or the except block was entered
ChatErrorPath ==
    chat.pc \in {"returned", "raised"} /\ (chat.pc = "raised" \/ chat.run_raised)

\* C30: a call of process_chat_message, process_selection or
\* process_confirmation that takes an error path answers with an envelope
\* whose message is one of the fixed friendly texts.
C30_ErrorMessageIsFixedText ==
    ChatErrorPath =>
        chat.pc = "returned" /\ chat.ret.message \in FriendlyErrorTexts

(***************************************************************************)
(* The run that creates a market (specification SpecChat).                 *)
(***************************************************************************)
\* the messages that the last call's graph run left in the checkpoint after
\* the latest user message
RunMessages ==
    LET ms == chat.values.messages
        u == {i \in 1..Len(ms) : ms[i].role = "user"}
        last == IF u = {} THEN 0 ELSE CHOOSE i \in u : \A j \in u : j <= i
    IN SubSeq(ms, last + 1, Len(ms))

\* the last call was process_chat_message and its run executed create_market
CreatedMarketInRun ==
    /\ chat.pc \in {"returned", "raised"}
    /\ chat.entry = "process_chat_message"
    /\ chat.ran
    /\ \E i \in 1..Len(RunMessages) : RunMessages[i].content = "created_market"

\* C31: a graph run that created a market ends awaiting the selection: the
\* run does not raise, its last message is the one presenting the market,
\* current_node is wait_for_selection, and no message of the selection step
\* was written in that run.
C31_RunStopsAfterCreateMarket ==
    CreatedMarketInRun =>
        /\ ~chat.run_raised
        /\ chat.values.current_node = "wait_for_selection"
        /\ RunMessages[Len(RunMessages)].content = "created_market"
        /\ \A i \in 1..Len(RunMessages) :
              RunMessages[i].content \notin
                 {"selection_not_understood", "invalid_selection", "proceed?"}

(***************************************************************************)
(* The persisted messages over the turns (specification SpecChat).         *)
(***************************************************************************)
\* the messages persisted for a conversation in a checkpoint store
PersistedMessages(store, cid) ==
    IF cid \in DOMAIN store THEN store[cid].messages ELSE <<>>

\* C32: a call of process_chat_message whose graph run wrote the checkpoint
\* leaves as persisted messages the ones persisted before, then the new
\* user message, then only assistant messages of this turn.
C32_MessagesExtendedInOrder ==
    [][turns' # turns /\ chat'.entry = "process_chat_message" /\ chat'.ran =>
          LET cid == chat'.conversation_id
              old == PersistedMessages(checkpointer, cid)
              new == PersistedMessages(checkpointer', cid)
          IN /\ Len(new) > Len(old)
             /\ SubSeq(new, 1, Len(old)) = old
             /\ new[Len(old) + 1] = Msg("user", UserMsg(turns'))
             /\ \A i \in (Len(old) + 2)..Len(new) : new[i].role = "assistant"
      ]_vars

(***************************************************************************)
(* What call_football_worker_sync returns (specification SpecWorker).      *)
(***************************************************************************)
\* the worker's state holds an error: the state of a worker that could not
\* be built, or an error stored as last_search_result
WorkerStateHoldsError ==
    \/ "error" \in DOMAIN chat.state
    \/ /\ "last_search_result" \in DOMAIN chat.state
       /\ chat.state.last_search_result = "error"

\* C33: call_football_worker_sync returns a dictionary; when the worker's
\* state holds an error the dictionary is the result of the fallback
\* c_sports_tools, and for an unknown action it holds an error key.
C33_FallbackOnWorkerError ==
    chat.pc = "returned" =>
        /\ chat.ret.kind \in {"search_result", "empty_dict", "found", "empty",
                              "error"}
        /\ WorkerStateHoldsError =>
              chat.ret.kind \in {"found", "empty", "error"}
        /\ WorkerStateHoldsError /\ chat.ret.action = "other" =>
              chat.ret.kind = "error"

(***************************************************************************)
(* The history handed to the reasoning step (specification Spec).          *)
(***************************************************************************)
\* the record stored for a conversation: the cached one, else the file's
StoredRecord(cid) ==
    IF cid \in DOMAIN memory_store THEN memory_store[cid]
    ELSE IF cid \in DOMAIN files THEN files[cid]
    ELSE <<>>

\* C34: when process_message invokes the agent, the messages it hands over
\* are the text turns stored for the conversation before the call, in
\* stored order, followed by the new user message once.
C34_HistoryIsStoredTurnsPlusMessage ==
    [][\A r \in DOMAIN req :
          req[r].pc # "awaiting" /\ req'[r].pc = "awaiting" =>
             req'[r].messages_list =
                TextOnly(StoredRecord(req'[r].conversation_id))
                   \o << [role |-> "user", content |-> req'[r].message] >>
      ]_vars

(***************************************************************************)
(* Whole runs of the compiled chat graph (specification SpecRun): the run  *)
(* starts at START -> process_message on a state of a flow, with or        *)
(* without a new user message, and no node raises.  create_market_graph    *)
(* (market_graph.py lines 276-324) has the same nodes and edges without    *)
(* sports_info.                                                            *)
(***************************************************************************)
InitRun ==
    /\ memory_store = EmptyMap
    /\ files = EmptyMap
    /\ disk_ok = TRUE
    /\ req = [r \in Reqs |-> Idle]
    /\ turns = 0
    /\ checkpointer = EmptyMap
    /\ client = NoClient
    /\ \E s \in FlowStates, intent \in Intents, new_message \in BOOLEAN :
         LET input == IF new_message
                      THEN ApplyUpdate(s, [messages |-> << Msg("user", "m1") >>])
                      ELSE s
         IN chat = [pc |-> "input", state |-> input, intent |-> intent,
                    run |-> [raised |-> FALSE, values |-> input]]

\* graph.invoke runs the nodes from process_message on until END, or until
\* the run is aborted (GraphRecursionError after RecursionLimit steps)
RunGraph ==
    /\ chat.pc = "input"
    /\ chat' = [chat EXCEPT
                  !.pc = "ran",
                  !.run = RunFrom(chat.state, "process_message", 1,
                                  [intent |-> chat.intent, fail_step |-> 0,
                                   n |-> 1])]
    /\ UNCHANGED <<memory_store, files, disk_ok, req, turns, checkpointer, client>>

SpecRun == InitRun /\ [][RunGraph]_vars

\* C35: a run of the graph in which every node call returns reaches END: it
\* is not aborted with nodes still to run.
C35_RunReachesEnd ==
    chat.pc = "ran" => ~chat.run.raised /\ router(chat.run.values) = "end"

(***************************************************************************)
(* The text turns one call of process_message stores (specification Spec). *)
(***************************************************************************)
\* C36: when a call of process_message has ended, with an envelope or not,
\* the text turns stored for its conversation are the history the call
\* found, its user message, and one assistant turn after it.
C36_OneUserOneAssistantTurn ==
    \A r \in DOMAIN req :
        req[r].pc \in {"done", "raised"} =>
            LET t == TextOnly(Lookup(memory_store, req[r].conversation_id))
                h == req[r].messages_list
            IN /\ Len(t) = Len(h) + 1
               /\ SubSeq(t, 1, Len(h)) = h
               /\ t[Len(t)].role = "assistant"

(***************************************************************************)
(* The selection step (specification SpecNodes).                           *)
(***************************************************************************)
\* the positions of the state's selections whose id is the selected_id
MatchingSelections(state) ==
    IF state.selected_id \in {"None", ""} THEN {}
    ELSE {i \in 1..Len(state.selections) :
             state.selections[i].id = state.selected_id}

\* C37: the selection step moves on to wait_for_confirmation, with
\* selected_option the name of the chosen selection, only for a selected_id
\* that is the id of one of the selections; for a missing or unknown
\* selected_id it returns no selected_option, keeps current_node at
\* wait_for_selection and appends one assistant message.
C37_SelectionNeedsKnownId ==
    chat.pc = "ran" /\ chat.node = "wait_for_selection" =>
        LET match == MatchingSelections(chat.state)
        IN /\ chat.update.current_node = "wait_for_confirmation" =>
                /\ match # {}
                /\ \E i \in match :
                      chat.update.selected_option = chat.state.selections[i].name
           /\ match = {} =>
                /\ "selected_option" \notin DOMAIN chat.update
                /\ chat.update.current_node = "wait_for_selection"
                /\ Len(chat.update.messages) = 1
                /\ chat.update.messages[1].role = "assistant"

\* C37 witness: the selection step ran on a market with an unknown
\* selected_id and asked again
C37_Witness ==
    /\ chat.pc = "ran"
    /\ chat.node = "wait_for_selection"
    /\ chat.state.selections # <<>>
    /\ chat.state.selected_id = "bogus"
    /\ chat.update.current_node = "wait_for_selection"

C39_UnknownConversationAnswered ==
    [][(/\ chat'.entry \in {"process_selection", "process_confirmation"}
        /\ chat'.conversation_id \notin DOMAIN checkpointer)
          => /\ chat'.pc = "returned"
             /\ chat'.ret.message_type = "error"
             /\ chat'.ret.message = "conversation_not_found"
             /\ ~chat'.ran
             /\ "patch" \notin DOMAIN chat'
             /\ checkpointer' = checkpointer]_vars

(***************************************************************************)
(* The confirmation step together with the execution service               *)
(* (specification SpecConfirm): process_confirmation runs on a state of a  *)
(* flow while the backend answers the request in one of the ways an HTTP   *)
(* call can end.  chat records the state, the backend's answer, what       *)
(* request_market_creation handed back and the update the node returned.   *)
(***************************************************************************)

\* the ways client.post and response.json() can end (user_be_service.py
\* lines 21-33): an HTTP answer with its status code and body, an exception
\* of the transport, the timeout of 10 seconds
BackendOutcomes ==
    {[kind |-> "http", status_code |-> code, json |-> is_json, status |-> st] :
        code \in {200, 500}, is_json \in BOOLEAN,
        st \in {"success", "error", "None"}}
    \cup {[kind |-> k, status_code |-> 0, json |-> FALSE, status |-> "None"] :
            k \in {"transport_error", "timeout"}}

\* a request that lets the exception of the transport out
request_market_creation_Propagates(market_data, backend) ==
    IF backend.kind = "http" /\ backend.status_code = 200 /\ backend.json
    THEN [raised |-> FALSE,
          ret |-> [kind |-> "backend", status |-> backend.status,
                   market_id |-> "None"]]
    ELSE IF backend.kind = "http"
    THEN [raised |-> FALSE,
          ret |-> [kind |-> "mock", status |-> "success",
                   market_id |-> market_data.id]]
    ELSE [raised |-> TRUE,
          ret |-> [kind |-> "none", status |-> "None", market_id |-> "None"]]

\* user_be_service.request_market_creation (lines 9-51): [raised, ret].
\* HTTP 200 returns the body as the backend wrote it (line 33); any other
\* status code (lines 34-42) and any exception, that of response.json()
\* on a body that is no JSON included (lines 43-51), return the mock
\* response with status "success" and the market's own id
request_market_creation(market_data, backend) ==
    IF backend.kind = "http" /\ backend.status_code = 200 /\ backend.json
    THEN [raised |-> FALSE,
          ret |-> [kind |-> "backend", status |-> backend.status,
                   market_id |-> "None"]]
    ELSE [raised |-> FALSE,
          ret |-> [kind |-> "mock", status |-> "success",
                   market_id |-> market_data.id]]

InitConfirm ==
    /\ memory_store = EmptyMap
    /\ files = EmptyMap
    /\ disk_ok = TRUE
    /\ req = [r \in Reqs |-> Idle]
    /\ turns = 0
    /\ checkpointer = EmptyMap
    /\ client = NoClient
    /\ \E s \in FlowStates, backend \in BackendOutcomes :
         chat = [pc |-> "input", state |-> s, backend |-> backend,
                 called |-> FALSE, raised |-> FALSE,
                 market_response |-> [kind |-> "none", status |-> "None",
                                      market_id |-> "None"],
                 update |-> [current_node |-> "None"]]

\* chat_graph.process_confirmation (lines 499-551) as a whole: the early
\* return of the not-confirmed branch, else the awaited request (line 540)
\* and the return of status "open", which does not read market_response
ConfirmationRuns ==
    /\ chat.pc = "input"
    /\ LET called == chat.state.confirmed = "True"
           r == request_market_creation(
                    [id |-> chat.state.market_id,
                     selections |-> chat.state.selections,
                     bet_amount |-> chat.state.bet_amount,
                     selected_id |-> chat.state.selected_id], chat.backend)
       IN chat' = [chat EXCEPT
                     !.pc = "ran",
                     !.called = called,
                     !.raised = called /\ r.raised,
                     !.market_response = IF called THEN r.ret ELSE @,
                     !.update = IF called /\ r.raised
                                THEN @
                                ELSE node_process_confirmation(
                                         chat.state, [n |-> 1])]
    /\ UNCHANGED <<memory_store, files, disk_ok, req, turns, checkpointer, client>>

SpecConfirm == InitConfirm /\ [][ConfirmationRuns]_vars

\* C40 as written: request_market_creation never raises and hands back a
\* response of status success for every answer of the backend (HTTP 200,
\* another status code, transport exception, timeout), and the confirmed
\* flow ends with status open and current_node end.
C40_AlwaysSuccessResponse ==
    (chat.pc = "ran" /\ chat.state.confirmed = "True") =>
        /\ chat.called /\ ~chat.raised
        /\ chat.market_response.status = "success"
        /\ chat.update.status = "open"
        /\ chat.update.current_node = "end"

\* C40, amended: request_market_creation never raises; on HTTP 200 with a
\* JSON body it hands back that body, whatever status it names, and on
\* every other answer of the backend (another status code, a body that is
\* no JSON, transport exception, timeout) the mock response of status
\* success with the market's own id; the confirmation step does not read
\* the response, so a confirmed flow always ends with status open and
\* current_node end.
C40_ConfirmedFlowOpensWhateverBackend ==
    (chat.pc = "ran" /\ chat.state.confirmed = "True") =>
        /\ chat.called /\ ~chat.raised
        /\ IF chat.backend.kind = "http" /\ chat.backend.status_code = 200
              /\ chat.backend.json
           THEN /\ chat.market_response.kind = "backend"
                /\ chat.market_response.status = chat.backend.status
           ELSE /\ chat.market_response.kind = "mock"
                /\ chat.market_response.status = "success"
                /\ chat.market_response.market_id = chat.state.market_id
        /\ chat.update.status = "open"
        /\ chat.update.current_node = "end"

\* C40 witness: the request of a confirmed market timed out, the mock
\* response came back and the market was opened
C40_Witness ==
    /\ chat.pc = "ran"
    /\ chat.state.confirmed = "True"
    /\ chat.state.selected_option # "None"
    /\ chat.backend.kind = "timeout"
    /\ chat.market_response.kind = "mock"
    /\ chat.market_response.status = "success"
    /\ chat.update.status = "open"
    /\ chat.update.current_node = "end"

====
